---- MODULE Spec2Model ----
(***************************************************************************)
(* Verification model of the prime-academy front end.                      *)
(*                                                                         *)
(* Part A: the attendance modal (src/src/components/AttendanceModal.tsx),  *)
(*         its two queries, the reconciliation effect, the per-student     *)
(*         buttons, Save All and the mark-attendance mutation.             *)
(* Part B: the schedule editor and the wizard of the batch-creation page   *)
(*         (src/src/pages/BatchCreation.tsx).                              *)
(* Part C: the edit modal of the batches list, with its own copy of the    *)
(*         schedule editor (src/src/pages/BatchesList.tsx).                *)
(*         Its view and delete modals and the reading of a schedule that   *)
(*         arrives as an object or as a JSON string are here too.          *)
(* Part D: the reports page (src/src/pages/Reports.tsx).                   *)
(* Part E: the allocation modal of the batch-progress list.                *)
(* Part F: check-in and check-out on the faculty dashboard.                *)
(*                                                                         *)
(* One page is mounted at a time; each specification below starts on one   *)
(* page (or chooses one) and leaves the state of the others alone.         *)
(***************************************************************************)
EXTENDS Integers, Sequences, FiniteSets, TLC

VARIABLES
    \* ---- attendance modal (AttendanceModal.tsx) ----
    isOpen,              \* the modal is mounted and open (FacultyDashboard mounts it per session)
    studentAttendances,  \* useState<Record<number, AttendanceStatus>>: studentId -> status or NoStatus
    enrollmentsData,     \* cached result of the ['batch-enrollments', batchId] query
    attendancesData,     \* cached result of the ['session-attendances', session.id] query
    enrFetching,         \* a fetch of the enrollments query is in flight
    attFetching,         \* a fetch of the attendances query is in flight
    inflight,            \* mark-attendance calls issued and not yet answered, in issue order
    markAttendanceMutation, \* status of the mutation observer: that of the latest mutate()
    srvAtt,              \* the server's attendance records of the session
    \* ---- which page is mounted ----
    page,                \* "faculty-dashboard" | "batch-creation" | "batches-list"
    \* ---- batch-creation wizard (BatchCreation.tsx) ----
    active,              \* useState(0): the step shown by the Stepper
    formValues,          \* form.values of useForm<BatchFormData>
    suggestedBatchId,    \* useState<number | null>: 0 stands for null
    handleNextPc,        \* where the async handleNext is: "idle" | "creating" | "suggesting"
    \* ---- batches list and its edit modal (BatchesList.tsx) ----
    batchSchedule,       \* batch.schedule of the listed batch as the server sends it
    selectedBatch,       \* useState<Batch | null>: TRUE when the batch is selected
    isEditModalOpen,     \* useState(false)
    editFormData,        \* useState<UpdateBatchRequest & {schedule?}>({})
    updateBatchMutation, \* status of the update mutation and the request it sent
    isViewModalOpen,     \* useState(false)
    isDeleteModalOpen,   \* useState(false)
    deleteBatchMutation, \* status of the delete mutation
    currentEnrollment,   \* batch.currentEnrollment of the listed batch
    \* ---- the signed-in user and the query cache ----
    userRole,            \* user?.role of useAuth()
    localStorage,        \* window.localStorage: key |-> stored string, "" when absent
    invalidated,         \* the query keys queryClient.invalidateQueries was called with
    \* ---- reports page (Reports.tsx) ----
    selectedReport,      \* useState<string>(''): id of the selected report type
    filters,             \* useState<Record<string, any>>({}): '' stands for a missing key
    reportData,          \* useState<ReportData | null>(null)
    isLoading,           \* useState(false)
    error,               \* useState<string | null>(null): "" stands for null
    reportRequest,       \* the promise handleGenerateReport awaits, if any
    \* ---- batch-progress list (BatchProgressList) ----
    isAllocateModalOpen, \* useState(false)
    allocationBatch,     \* its selectedBatch: TRUE when the batch is selected
    assignFacultyMutation, \* status of the assign-faculty mutation
    \* ---- faculty dashboard (FacultyDashboard) ----
    checkinMutation,     \* status of the check-in mutation
    checkoutMutation     \* status of the check-out mutation

attVars == <<isOpen, studentAttendances, enrollmentsData, attendancesData,
             enrFetching, attFetching, inflight, markAttendanceMutation, srvAtt>>

wizardVars == <<active, formValues, suggestedBatchId, handleNextPc>>

editVars == <<batchSchedule, selectedBatch, isEditModalOpen, editFormData,
              updateBatchMutation>>

listVars == <<isViewModalOpen, isDeleteModalOpen, deleteBatchMutation, currentEnrollment>>

reportVars == <<selectedReport, filters, reportData, isLoading, error, reportRequest>>

progressVars == <<isAllocateModalOpen, allocationBatch, assignFacultyMutation>>

dashboardVars == <<checkinMutation, checkoutMutation>>

authVars == <<userRole, localStorage>>

\* what the attendance modal, the wizard and the edit form do not touch
otherVars == <<authVars, listVars, reportVars, progressVars, dashboardVars>>

vars == <<attVars, page, wizardVars, editVars, otherVars, invalidated>>

----------------------------------------------------------------------------
(* Bounds *)

\* at most this many mark-attendance calls are unanswered at any time
MaxInflight == 2

\* at most this many time slots are added to a schedule
MaxSlots == 2

----------------------------------------------------------------------------
(* Part A: attendance modal *)

\* enum AttendanceStatus
AttendanceStatus == {"PRESENT", "MANUAL_PRESENT", "ABSENT"}

\* the value of studentAttendances[id] for a key that is not in the record (undefined)
NoStatus == "NONE"

StatusOrNone == AttendanceStatus \cup {NoStatus}

\* the students that occur in the model; the batch's roster enrolls both
Students == {"s1", "s2"}

\* enrollmentsData.data as served by GET /batches/{id}/enrollments
Roster == <<"s1", "s2">>

\* a Record<number, AttendanceStatus> with no keys
EmptyRecord == [s \in Students |-> NoStatus]

\* a query whose data is still undefined
NotLoaded(none) == [loaded |-> FALSE, data |-> none]

Loaded(d) == [loaded |-> TRUE, data |-> d]

SeqToSet(q) == {q[i] : i \in 1..Len(q)}

RemoveAt(q, i) == [j \in 1..(Len(q) - 1) |-> IF j < i THEN q[j] ELSE q[j + 1]]

\* an effect that lays the records over the entries already there
InitializeMerging(prev, att, enr) ==
    IF att.loaded
    THEN [s \in Students |-> IF prev[s] # NoStatus THEN prev[s] ELSE att.data[s]]
    ELSE IF enr.loaded
         THEN [s \in Students |->
                  IF s \in SeqToSet(enr.data) THEN "ABSENT" ELSE NoStatus]
         ELSE prev

\* the body of the useEffect: attendance records win when the attendances
\* query has data (an empty array is truthy too); otherwise, when the roster
\* is there, everybody is ABSENT; otherwise the state is left as it is.
InitializeStudentAttendances(prev, att, enr) ==
    IF att.loaded
    THEN [s \in Students |-> att.data[s]]
    ELSE IF enr.loaded
         THEN [s \in Students |->
                  IF s \in SeqToSet(enr.data) THEN "ABSENT" ELSE NoStatus]
         ELSE prev

\* a lookup without the || default
OrAbsentNoDefault(v) == v

\* studentAttendances[id] || AttendanceStatus.ABSENT
OrAbsent(v) == IF v = NoStatus THEN "ABSENT" ELSE v

\* the argument of markAttendanceMutation.mutate
MarkCall(studentId, status, isManual) ==
    [studentId |-> studentId, status |-> status, isManual |-> isManual]

\* handleBulkSave's forEach: one mutate per enrollment, isManual: false
BulkCalls(enr, sa) ==
    [i \in 1..Len(enr) |-> MarkCall(enr[i], OrAbsent(sa[enr[i]]), FALSE)]

\* a failed call that is sent again
AfterFailureRetry(calls, i) == Append(RemoveAt(calls, i), calls[i])

\* what a failed call leaves of the unanswered calls: the mutation sets no
\* retry option, so the call is simply gone
AfterFailure(calls, i) == RemoveAt(calls, i)

\* an onError that takes the optimistic entry back
OnMarkErrorRollback(sa, call) == [sa EXCEPT ![call.studentId] = NoStatus]

\* the mutation declares no onError: a failure leaves the local state alone
OnMarkError(sa, call) == sa

\* the mutation's onSuccess only invalidates the query: the local state is
\* not touched by the response itself
OnMarkSuccess(sa, call) == sa

\* an update that forgets ...prev
SetEntryNoSpread(prev, studentId, status) ==
    [s \in Students |-> IF s = studentId THEN status ELSE NoStatus]

\* setStudentAttendances((prev) => ({ ...prev, [studentId]: status }))
SetEntry(prev, studentId, status) == [prev EXCEPT ![studentId] = status]

\* const isMarking = markAttendanceMutation.isPending
isMarking == markAttendanceMutation = "pending"

\* the observer follows the latest mutate() only; while it is pending that
\* call is the last of the unanswered calls
ObserverAfter(calls, i, outcome) ==
    IF isMarking /\ i = Len(calls) THEN outcome ELSE markAttendanceMutation

\* the dashboard before the modal is opened, with nothing in the cache
AttendanceModalClosed ==
    /\ isOpen = FALSE
    /\ studentAttendances = EmptyRecord
    /\ enrollmentsData = NotLoaded(<<>>)
    /\ attendancesData = NotLoaded(EmptyRecord)
    /\ enrFetching = FALSE
    /\ attFetching = FALSE
    /\ inflight = <<>>
    /\ markAttendanceMutation = "idle"

\* FacultyDashboard: setSelectedSession(session); setIsAttendanceModalOpen(true).
\* The modal mounts with studentAttendances = {}, the effect runs on whatever
\* the cache holds, and both queries (stale) fetch.
OpenModal ==
    /\ ~isOpen
    /\ isOpen' = TRUE
    /\ studentAttendances' =
          InitializeStudentAttendances(EmptyRecord, attendancesData, enrollmentsData)
    /\ enrFetching' = TRUE
    /\ attFetching' = TRUE
    /\ markAttendanceMutation' = "idle"
    /\ UNCHANGED <<enrollmentsData, attendancesData, inflight, srvAtt>>
    /\ UNCHANGED <<page, wizardVars, editVars, otherVars, invalidated>>

\* onClose: the dashboard unmounts the modal; its state is discarded, the
\* cache and the requests in flight live on.
CloseModal ==
    /\ isOpen
    /\ isOpen' = FALSE
    /\ studentAttendances' = EmptyRecord
    /\ markAttendanceMutation' = "idle"
    /\ UNCHANGED <<enrollmentsData, attendancesData, enrFetching, attFetching,
                   inflight, srvAtt>>
    /\ UNCHANGED <<page, wizardVars, editVars, otherVars, invalidated>>

\* the enrollments query resolves; a changed result re-runs the effect
EnrollmentsArrive ==
    /\ enrFetching
    /\ enrFetching' = FALSE
    /\ enrollmentsData' = Loaded(Roster)
    /\ studentAttendances' =
          IF isOpen /\ enrollmentsData' # enrollmentsData
          THEN InitializeStudentAttendances(studentAttendances, attendancesData,
                                            enrollmentsData')
          ELSE studentAttendances
    /\ UNCHANGED <<isOpen, attendancesData, attFetching, inflight, markAttendanceMutation, srvAtt>>
    /\ UNCHANGED <<page, wizardVars, editVars, otherVars, invalidated>>

\* the attendances query resolves with the server's records; a changed
\* result re-runs the effect
AttendancesArrive ==
    /\ attFetching
    /\ attFetching' = FALSE
    /\ attendancesData' = Loaded(srvAtt)
    /\ studentAttendances' =
          IF isOpen /\ attendancesData' # attendancesData
          THEN InitializeStudentAttendances(studentAttendances, attendancesData',
                                            enrollmentsData)
          ELSE studentAttendances
    /\ UNCHANGED <<isOpen, enrollmentsData, enrFetching, inflight, markAttendanceMutation, srvAtt>>
    /\ UNCHANGED <<page, wizardVars, editVars, otherVars, invalidated>>

\* handleAttendanceChange(studentId, status, isManual)
handleAttendanceChange(studentId, status, isManual) ==
    /\ Len(inflight) < MaxInflight
    /\ studentAttendances' = SetEntry(studentAttendances, studentId, status)
    /\ inflight' = Append(inflight, MarkCall(studentId, status, isManual))
    /\ markAttendanceMutation' = "pending"
    /\ UNCHANGED <<isOpen, enrollmentsData, attendancesData, enrFetching,
                   attFetching, srvAtt>>
    /\ UNCHANGED <<page, wizardVars, editVars, otherVars, invalidated>>

\* a row of buttons is rendered per enrollment once the roster is there, and
\* every button is disabled while isMarking
ButtonsEnabled(studentId) ==
    /\ isOpen
    /\ ~isMarking
    /\ enrollmentsData.loaded
    /\ studentId \in SeqToSet(enrollmentsData.data)

PresentButton(studentId) ==
    /\ ButtonsEnabled(studentId)
    /\ handleAttendanceChange(studentId, "PRESENT", FALSE)

ManualButton(studentId) ==
    /\ ButtonsEnabled(studentId)
    /\ handleAttendanceChange(studentId, "MANUAL_PRESENT", TRUE)

AbsentButton(studentId) ==
    /\ ButtonsEnabled(studentId)
    /\ handleAttendanceChange(studentId, "ABSENT", FALSE)

\* handleBulkSave behind the Save All button (disabled while isMarking)
handleBulkSave ==
    /\ isOpen
    /\ ~isMarking
    /\ IF ~enrollmentsData.loaded
       THEN UNCHANGED <<inflight, markAttendanceMutation>>
       ELSE /\ Len(inflight) + Len(enrollmentsData.data) <= MaxInflight
            /\ inflight' = inflight \o BulkCalls(enrollmentsData.data, studentAttendances)
            /\ markAttendanceMutation' =
                  IF Len(enrollmentsData.data) > 0 THEN "pending"
                  ELSE markAttendanceMutation
    /\ UNCHANGED <<isOpen, studentAttendances, enrollmentsData, attendancesData,
                   enrFetching, attFetching, srvAtt>>
    /\ UNCHANGED <<page, wizardVars, editVars, otherVars, invalidated>>

\* a mark call succeeds: the server records it, onSuccess invalidates the
\* attendances query, which refetches while the modal observes it
MarkSucceeds(i) ==
    /\ i \in 1..Len(inflight)
    /\ srvAtt' = [srvAtt EXCEPT ![inflight[i].studentId] = inflight[i].status]
    /\ inflight' = RemoveAt(inflight, i)
    /\ markAttendanceMutation' = ObserverAfter(inflight, i, "success")
    /\ studentAttendances' = OnMarkSuccess(studentAttendances, inflight[i])
    /\ attFetching' = (attFetching \/ isOpen)
    /\ invalidated' = invalidated \cup {"session-attendances"}
    /\ UNCHANGED <<isOpen, enrollmentsData, attendancesData, enrFetching>>
    /\ UNCHANGED <<page, wizardVars, editVars, otherVars>>

\* a mark call fails
MarkFails(i) ==
    /\ i \in 1..Len(inflight)
    /\ inflight' = AfterFailure(inflight, i)
    /\ markAttendanceMutation' = ObserverAfter(inflight, i, "error")
    /\ studentAttendances' = OnMarkError(studentAttendances, inflight[i])
    /\ UNCHANGED <<isOpen, enrollmentsData, attendancesData, enrFetching,
                   attFetching, srvAtt>>
    /\ UNCHANGED <<page, wizardVars, editVars, otherVars, invalidated>>



----------------------------------------------------------------------------
(* Part B: schedule editor and wizard of the batch-creation page *)

\* const weekDays = ['Monday', ..., 'Sunday']
weekDays == <<"Monday", "Tuesday", "Wednesday", "Thursday", "Friday",
              "Saturday", "Sunday">>

\* the day checkboxes the model clicks
DayInputs == {"Monday", "Wednesday"}

\* A time string is the sequence of its characters; <input type="time">
\* yields '' or 'HH:MM'.
T0900 == <<"0", "9", ":", "0", "0">>

T1130 == <<"1", "1", ":", "3", "0">>

T1300 == <<"1", "3", ":", "0", "0">>

T1400 == <<"1", "4", ":", "0", "0">>

\* the values the model types into a time field
TimeInputs == {<<>>, T0900, T1130}

\* the values parseInt(e.target.value) || 0 hands to handleDurationChange
DurationInputs == {-15, 45}

DigitValue(c) ==
    CASE c = "0" -> 0 [] c = "1" -> 1 [] c = "2" -> 2 [] c = "3" -> 3
      [] c = "4" -> 4 [] c = "5" -> 5 [] c = "6" -> 6 [] c = "7" -> 7
      [] c = "8" -> 8 [] c = "9" -> 9

\* Number(s) of a string of decimal digits (Number('') is 0)
RECURSIVE ToNumber(_)
ToNumber(s) ==
    IF s = <<>> THEN 0
    ELSE 10 * ToNumber(SubSeq(s, 1, Len(s) - 1)) + DigitValue(s[Len(s)])

\* s.split(':')
RECURSIVE SplitColon(_)
SplitColon(s) ==
    IF \A i \in 1..Len(s) : s[i] # ":"
    THEN <<s>>
    ELSE LET k == CHOOSE i \in 1..Len(s) :
                      s[i] = ":" /\ \A j \in 1..(i - 1) : s[j] # ":"
         IN  <<SubSeq(s, 1, k - 1)>> \o SplitColon(SubSeq(s, k + 1, Len(s)))

Max(a, b) == IF a >= b THEN a ELSE b

\* a duration that is not clamped at 0
calculateDurationNoClamp(start, end) ==
    IF start = <<>> \/ end = <<>> THEN 0
    ELSE LET startParts == SplitColon(start)
             endParts == SplitColon(end)
             startTotal == ToNumber(startParts[1]) * 60 + ToNumber(startParts[2])
             endTotal == ToNumber(endParts[1]) * 60 + ToNumber(endParts[2])
         IN  endTotal - startTotal

\* a duration that counts whole hours only
calculateDurationHours(start, end) ==
    IF start = <<>> \/ end = <<>> THEN 0
    ELSE LET startParts == SplitColon(start)
             endParts == SplitColon(end)
             startTotal == ToNumber(startParts[1]) * 60
             endTotal == ToNumber(endParts[1]) * 60
         IN  Max(0, endTotal - startTotal)

\* calculateDuration of the creation form
calculateDuration(start, end) ==
    IF start = <<>> \/ end = <<>> THEN 0
    ELSE LET startParts == SplitColon(start)
             endParts == SplitColon(end)
             startTotal == ToNumber(startParts[1]) * 60 + ToNumber(startParts[2])
             endTotal == ToNumber(endParts[1]) * 60 + ToNumber(endParts[2])
         IN  Max(0, endTotal - startTotal)

\* the slot the "+ Add Time Slot" button appends (its id, a key for React
\* that no handler reads, is left out)
NewSlot == [startTime |-> <<>>, endTime |-> <<>>, durationMinutes |-> 0]

\* a time change that keeps a duration once one is there
handleTimeChangeKeepDuration(slots, index, field, value) ==
    LET old == slots[index]
        set == IF field = "startTime" THEN [old EXCEPT !.startTime = value]
                                      ELSE [old EXCEPT !.endTime = value]
        new == IF old.durationMinutes > 0 THEN set
               ELSE IF field = "startTime" /\ set.endTime # <<>>
               THEN [set EXCEPT !.durationMinutes = calculateDuration(value, set.endTime)]
               ELSE IF field = "endTime" /\ set.startTime # <<>>
                    THEN [set EXCEPT !.durationMinutes =
                                        calculateDuration(set.startTime, value)]
                    ELSE set
    IN  [slots EXCEPT ![index] = new]

\* a time change that recomputes the duration whatever the other field holds
handleTimeChangeAlways(slots, index, field, value) ==
    LET old == slots[index]
        set == IF field = "startTime" THEN [old EXCEPT !.startTime = value]
                                      ELSE [old EXCEPT !.endTime = value]
    IN  [slots EXCEPT ![index] =
            [set EXCEPT !.durationMinutes = calculateDuration(set.startTime, set.endTime)]]

\* handleTimeChange of slot `index` of the creation form: the new list
handleTimeChange(slots, index, field, value) ==
    LET old == slots[index]
        set == IF field = "startTime" THEN [old EXCEPT !.startTime = value]
                                      ELSE [old EXCEPT !.endTime = value]
        new == IF field = "startTime" /\ set.endTime # <<>>
               THEN [set EXCEPT !.durationMinutes = calculateDuration(value, set.endTime)]
               ELSE IF field = "endTime" /\ set.startTime # <<>>
                    THEN [set EXCEPT !.durationMinutes =
                                        calculateDuration(set.startTime, value)]
                    ELSE set
    IN  [slots EXCEPT ![index] = new]

\* handleDurationChange of slot `index` of the creation form: the new list
handleDurationChange(slots, index, value) ==
    [slots EXCEPT ![index].durationMinutes = Max(0, value)]

\* a handleRemove that drops the last slot whatever the index
handleRemoveLast(slots, index) == SubSeq(slots, 1, Len(slots) - 1)

\* handleRemove of slot `index` of the creation form: the new list
handleRemove(slots, index) == RemoveAt(slots, index)

\* a checkbox handler that appends whatever the box showed
toggleDayAppends(days, day) == Append(days, day)

\* the onChange of a day checkbox: e.target.checked is the negation of what
\* the box showed
toggleDay(days, day) ==
    IF day \in SeqToSet(days)
    THEN SelectSeq(days, LAMBDA d : d # day)
    ELSE Append(days, day)

\* useForm's initialValues
initialValues ==
    [title |-> "", software |-> "", mode |-> "", startDate |-> "",
     endDate |-> "", maxCapacity |-> 1,
     schedule |-> [days |-> <<>>, timeSlots |-> <<>>]]

\* the page as it mounts, shown at `step`
WizardMounted(step) ==
    /\ active = step
    /\ formValues = initialValues
    /\ suggestedBatchId = 0
    /\ handleNextPc = "idle"

TextInputs == {"", "x"}

ModeInputs == {"online", "offline"}

CapacityInputs == {0, 1}

\* form.validate(): the rules of useForm's validate option
validate(values) ==
    [title |-> values.title = "",
     software |-> values.software = "",
     mode |-> values.mode = "",
     startDate |-> values.startDate = "",
     endDate |-> values.endDate = "",
     maxCapacity |-> values.maxCapacity < 1,
     timeSlots |-> values.schedule.timeSlots = <<>>]

hasErrors(errors) == \E f \in DOMAIN errors : errors[f]

\* a validation that forgets the days
handleNextReturnsNoDays(step, values) ==
    IF step = 0
    THEN validate(values).title \/ validate(values).software \/ values.mode = ""
    ELSE IF step = 1
         THEN hasErrors(validate(values))
         ELSE FALSE

\* the validation at the top of handleNext: TRUE when the handler returns
\* without doing anything
handleNextReturns(step, values) ==
    IF step = 0
    THEN validate(values).title \/ validate(values).software \/ values.mode = ""
    ELSE IF step = 1
         THEN \/ hasErrors(validate(values))
              \/ values.schedule.days = <<>>
              \/ values.schedule.timeSlots = <<>>
         ELSE FALSE

\* a handleNext that creates the batch on every pass of the schedule step
handleNextOutcomeCreatesAgain(step, values, batchId) ==
    IF handleNextReturns(step, values) THEN "return"
    ELSE IF step = 1 THEN "create"
    ELSE "advance"

\* what one call of handleNext does first: "return", "create" (createBatch
\* is issued) or "advance" (setActive)
handleNextOutcome(step, values, batchId) ==
    IF handleNextReturns(step, values) THEN "return"
    ELSE IF step = 1 /\ batchId = 0 THEN "create"
    ELSE "advance"

\* setActive((current) => (current < 3 ? current + 1 : current))
Advance(current) == IF current < 3 THEN current + 1 ELSE current

\* setActive((current) => (current > 0 ? current - 1 : current))
Retreat(current) == IF current > 0 THEN current - 1 ELSE current

\* the disabled attribute of the Next button
NextDisabled ==
    \/ handleNextPc = "creating"
    \/ handleNextPc = "suggesting"
    \/ (active = 0 /\ (formValues.title = "" \/ formValues.mode = ""))
    \/ (active = 1 /\ (\/ formValues.startDate = ""
                       \/ formValues.endDate = ""
                       \/ formValues.schedule.days = <<>>
                       \/ formValues.schedule.timeSlots = <<>>))

OnWizard == page = "batch-creation"

WizardFrame == UNCHANGED <<page, attVars, editVars, otherVars, invalidated>>

\* the inputs of the first step
SetTitle(v) ==
    /\ OnWizard /\ active = 0
    /\ formValues' = [formValues EXCEPT !.title = v]
    /\ UNCHANGED <<active, suggestedBatchId, handleNextPc>>
    /\ WizardFrame

SetSoftware(v) ==
    /\ OnWizard /\ active = 0
    /\ formValues' = [formValues EXCEPT !.software = v]
    /\ UNCHANGED <<active, suggestedBatchId, handleNextPc>>
    /\ WizardFrame

SetMode(v) ==
    /\ OnWizard /\ active = 0
    /\ formValues' = [formValues EXCEPT !.mode = v]
    /\ UNCHANGED <<active, suggestedBatchId, handleNextPc>>
    /\ WizardFrame

\* the inputs of the second step
SetStartDate(v) ==
    /\ OnWizard /\ active = 1
    /\ formValues' = [formValues EXCEPT !.startDate = v]
    /\ UNCHANGED <<active, suggestedBatchId, handleNextPc>>
    /\ WizardFrame

SetEndDate(v) ==
    /\ OnWizard /\ active = 1
    /\ formValues' = [formValues EXCEPT !.endDate = v]
    /\ UNCHANGED <<active, suggestedBatchId, handleNextPc>>
    /\ WizardFrame

SetMaxCapacity(v) ==
    /\ OnWizard /\ active = 1
    /\ formValues' = [formValues EXCEPT !.maxCapacity = v]
    /\ UNCHANGED <<active, suggestedBatchId, handleNextPc>>
    /\ WizardFrame

\* a day checkbox of the second step
ToggleDay(day) ==
    /\ OnWizard /\ active = 1
    /\ formValues' = [formValues EXCEPT
                         !.schedule.days = toggleDay(formValues.schedule.days, day)]
    /\ UNCHANGED <<active, suggestedBatchId, handleNextPc>>
    /\ WizardFrame

\* the "+ Add Time Slot" button
AddTimeSlot ==
    /\ OnWizard /\ active = 1
    /\ Len(formValues.schedule.timeSlots) < MaxSlots
    /\ formValues' = [formValues EXCEPT
                         !.schedule.timeSlots = Append(@, NewSlot)]
    /\ UNCHANGED <<active, suggestedBatchId, handleNextPc>>
    /\ WizardFrame

\* the start and end time inputs of slot `index`
TimeChange(index, field, value) ==
    /\ OnWizard /\ active = 1
    /\ index \in 1..Len(formValues.schedule.timeSlots)
    /\ formValues' = [formValues EXCEPT
                         !.schedule.timeSlots = handleTimeChange(@, index, field, value)]
    /\ UNCHANGED <<active, suggestedBatchId, handleNextPc>>
    /\ WizardFrame

\* the duration input of slot `index`
DurationChange(index, value) ==
    /\ OnWizard /\ active = 1
    /\ index \in 1..Len(formValues.schedule.timeSlots)
    /\ formValues' = [formValues EXCEPT
                         !.schedule.timeSlots = handleDurationChange(@, index, value)]
    /\ UNCHANGED <<active, suggestedBatchId, handleNextPc>>
    /\ WizardFrame

\* the Remove button of slot `index`, rendered while there is more than one slot
RemoveSlot(index) ==
    /\ OnWizard /\ active = 1
    /\ index \in 1..Len(formValues.schedule.timeSlots)
    /\ Len(formValues.schedule.timeSlots) > 1
    /\ formValues' = [formValues EXCEPT
                         !.schedule.timeSlots = handleRemove(@, index)]
    /\ UNCHANGED <<active, suggestedBatchId, handleNextPc>>
    /\ WizardFrame

\* the Next button: handleNext up to its first await
NextButton ==
    /\ OnWizard /\ active < 3
    /\ ~NextDisabled
    /\ LET outcome == handleNextOutcome(active, formValues, suggestedBatchId)
       IN  /\ handleNextPc' = IF outcome = "create" THEN "creating" ELSE handleNextPc
           /\ active' = IF outcome = "advance" THEN Advance(active) ELSE active
    /\ UNCHANGED <<formValues, suggestedBatchId>>
    /\ WizardFrame

\* createBatch resolves: setSuggestedBatchId(batchId), then the candidates
\* are asked for
CreateBatchSucceeds ==
    /\ OnWizard /\ handleNextPc = "creating"
    /\ suggestedBatchId' = 1
    /\ handleNextPc' = "suggesting"
    /\ UNCHANGED <<active, formValues>>
    /\ WizardFrame

\* createBatch rejects: the catch block returns
CreateBatchFails ==
    /\ OnWizard /\ handleNextPc = "creating"
    /\ handleNextPc' = "idle"
    /\ UNCHANGED <<active, formValues, suggestedBatchId>>
    /\ WizardFrame

\* suggestCandidates resolves: its onSuccess sets the batch id again, and
\* handleNext goes on to setActive
SuggestCandidatesSucceeds ==
    /\ OnWizard /\ handleNextPc = "suggesting"
    /\ suggestedBatchId' = 1
    /\ handleNextPc' = "idle"
    /\ active' = Advance(active)
    /\ UNCHANGED formValues
    /\ WizardFrame

\* suggestCandidates rejects: the catch block returns
SuggestCandidatesFails ==
    /\ OnWizard /\ handleNextPc = "suggesting"
    /\ handleNextPc' = "idle"
    /\ UNCHANGED <<active, formValues, suggestedBatchId>>
    /\ WizardFrame

\* the Back button (disabled on the first step)
handleBack ==
    /\ OnWizard /\ active # 0
    /\ active' = Retreat(active)
    /\ UNCHANGED <<formValues, suggestedBatchId, handleNextPc>>
    /\ WizardFrame

\* <Stepper onStepClick={setActive}>: a click on the header of a step
StepClick(step) ==
    /\ OnWizard /\ step \in 0..2
    /\ active' = step
    /\ UNCHANGED <<formValues, suggestedBatchId, handleNextPc>>
    /\ WizardFrame

----------------------------------------------------------------------------
(* Part C: the edit modal of the batches list *)

\* batch.schedule as the server sends it: absent (kind "undefined"), a
\* structured object with its days and time slots (kind "object"), or a
\* string (kind "string") with its text
NoSchedule == [kind |-> "undefined", days |-> <<>>, timeSlots |-> <<>>, text |-> <<>>]

ObjectSchedule(days, slots) ==
    [kind |-> "object", days |-> days, timeSlots |-> slots, text |-> <<>>]

StringSchedule(text) ==
    [kind |-> "string", days |-> <<>>, timeSlots |-> <<>>, text |-> text]

\* A JSON text is the sequence of its tokens: punctuation, string literals
\* (v: the pieces of the string; a day name is one piece, a time string its
\* characters), numbers, and bare words
Punct(p) == [t |-> p, v |-> <<>>, n |-> 0]

StringToken(pieces) == [t |-> "string", v |-> pieces, n |-> 0]

NumberToken(n) == [t |-> "number", v |-> <<>>, n |-> n]

WordToken(w) == [t |-> "word", v |-> <<w>>, n |-> 0]

\* the texts of `items` with a comma between them
RECURSIVE Commas(_)
Commas(items) ==
    IF items = <<>> THEN <<>>
    ELSE IF Len(items) = 1 THEN items[1]
    ELSE items[1] \o <<Punct(",")>> \o Commas(Tail(items))

\* the JSON text of an array whose elements have the texts `items`
stringifyArray(items) == <<Punct("[")>> \o Commas(items) \o <<Punct("]")>>

\* the JSON text of a time slot
stringifySlot(slot) ==
    <<Punct("{"),
      StringToken(<<"startTime">>), Punct(":"), StringToken(slot.startTime), Punct(","),
      StringToken(<<"endTime">>), Punct(":"), StringToken(slot.endTime), Punct(","),
      StringToken(<<"durationMinutes">>), Punct(":"), NumberToken(slot.durationMinutes),
      Punct("}")>>

\* JSON.stringify({ days, timeSlots }): the text a schedule is stored as
JSONstringify(days, slots) ==
    <<Punct("{"), StringToken(<<"days">>), Punct(":")>>
    \o stringifyArray([i \in 1..Len(days) |-> <<StringToken(<<days[i]>>)>>])
    \o <<Punct(","), StringToken(<<"timeSlots">>), Punct(":")>>
    \o stringifyArray([i \in 1..Len(slots) |-> stringifySlot(slots[i])])
    \o <<Punct("}")>>

\* the outcome of parsing a piece of a text: the value and the tokens left
Failed == [ok |-> FALSE, value |-> <<>>, rest |-> <<>>]

Parsed(value, rest) == [ok |-> TRUE, value |-> value, rest |-> rest]

Drop(tokens, k) == SubSeq(tokens, k + 1, Len(tokens))

IsPunct(tokens, i, p) == Len(tokens) >= i /\ tokens[i].t = p

IsKey(tokens, i, key) ==
    Len(tokens) >= i /\ tokens[i].t = "string" /\ tokens[i].v = <<key>>

IsString(tokens, i) == Len(tokens) >= i /\ tokens[i].t = "string"

IsNumber(tokens, i) == Len(tokens) >= i /\ tokens[i].t = "number"

\* a day name at the head of the tokens
ParseDay(tokens) ==
    IF IsString(tokens, 1) /\ Len(tokens[1].v) = 1
    THEN Parsed(tokens[1].v[1], Drop(tokens, 1))
    ELSE Failed

\* a time-slot object at the head of the tokens
ParseSlot(tokens) ==
    IF /\ IsPunct(tokens, 1, "{")
       /\ IsKey(tokens, 2, "startTime") /\ IsPunct(tokens, 3, ":") /\ IsString(tokens, 4)
       /\ IsPunct(tokens, 5, ",")
       /\ IsKey(tokens, 6, "endTime") /\ IsPunct(tokens, 7, ":") /\ IsString(tokens, 8)
       /\ IsPunct(tokens, 9, ",")
       /\ IsKey(tokens, 10, "durationMinutes") /\ IsPunct(tokens, 11, ":")
       /\ IsNumber(tokens, 12)
       /\ IsPunct(tokens, 13, "}")
    THEN Parsed([startTime |-> tokens[4].v, endTime |-> tokens[8].v,
                 durationMinutes |-> tokens[12].n],
                Drop(tokens, 13))
    ELSE Failed

ParseElement(kind, tokens) ==
    IF kind = "day" THEN ParseDay(tokens) ELSE ParseSlot(tokens)

\* the rest of an array after one of its elements
RECURSIVE ParseRest(_, _)
ParseRest(kind, tokens) ==
    IF IsPunct(tokens, 1, "]") THEN Parsed(<<>>, Drop(tokens, 1))
    ELSE IF IsPunct(tokens, 1, ",")
         THEN LET element == ParseElement(kind, Drop(tokens, 1))
              IN  IF ~element.ok THEN Failed
                  ELSE LET more == ParseRest(kind, element.rest)
                       IN  IF more.ok
                           THEN Parsed(<<element.value>> \o more.value, more.rest)
                           ELSE Failed
         ELSE Failed

\* an array of days or of time slots at the head of the tokens
ParseArray(kind, tokens) ==
    IF ~IsPunct(tokens, 1, "[") THEN Failed
    ELSE IF IsPunct(tokens, 2, "]") THEN Parsed(<<>>, Drop(tokens, 2))
    ELSE LET element == ParseElement(kind, Drop(tokens, 1))
         IN  IF ~element.ok THEN Failed
             ELSE LET more == ParseRest(kind, element.rest)
                  IN  IF more.ok
                      THEN Parsed(<<element.value>> \o more.value, more.rest)
                      ELSE Failed

\* JSON.parse throws a SyntaxError
Throws == [outcome |-> "SyntaxError", days |-> <<>>, timeSlots |-> <<>>]

\* JSON.parse(text) on the texts a schedule arrives as: the text of a
\* schedule object gives the object, the text null gives null, and a text
\* that is neither is not JSON
JSONparse(text) ==
    IF text = <<WordToken("null")>>
    THEN [outcome |-> "null", days |-> <<>>, timeSlots |-> <<>>]
    ELSE IF IsPunct(text, 1, "{") /\ IsKey(text, 2, "days") /\ IsPunct(text, 3, ":")
    THEN LET days == ParseArray("day", Drop(text, 3))
         IN  IF /\ days.ok
                /\ IsPunct(days.rest, 1, ",")
                /\ IsKey(days.rest, 2, "timeSlots")
                /\ IsPunct(days.rest, 3, ":")
             THEN LET slots == ParseArray("slot", Drop(days.rest, 3))
                  IN  IF slots.ok /\ slots.rest = <<Punct("}")>>
                      THEN [outcome |-> "object", days |-> days.value,
                            timeSlots |-> slots.value]
                      ELSE Throws
             ELSE Throws
    ELSE Throws

\* the JSON text of a schedule object, as the server sends it
JsonSchedule(days, slots) == StringSchedule(JSONstringify(days, slots))

\* the schedules of the listed batch the model starts from
MorningSlot == [startTime |-> T0900, endTime |-> T1130, durationMinutes |-> 150]

ServerSchedules ==
    {NoSchedule,
     ObjectSchedule(<<"Monday">>, <<MorningSlot>>),
     JsonSchedule(<<"Wednesday", "Monday">>, <<MorningSlot>>)}

\* !schedule
Falsy(schedule) ==
    schedule.kind = "undefined" \/ (schedule.kind = "string" /\ schedule.text = <<>>)

\* scheduleObj after the typeof schedule === 'string' block of formatDays,
\* formatTimeSlots and getScheduleObject
Normalized(schedule) ==
    IF schedule.kind = "string" THEN JSONparse(schedule.text)
    ELSE [outcome |-> "object", days |-> schedule.days, timeSlots |-> schedule.timeSlots]

\* a getScheduleObject that returns null for every string
getScheduleObjectNoParse(schedule) ==
    IF schedule.kind = "object"
    THEN [days |-> schedule.days, timeSlots |-> schedule.timeSlots]
    ELSE [days |-> <<>>, timeSlots |-> <<>>]

\* getScheduleObject(schedule) || { days: [], timeSlots: [] } of handleEdit
getScheduleObject(schedule) ==
    IF Falsy(schedule) \/ Normalized(schedule).outcome # "object"
    THEN [days |-> <<>>, timeSlots |-> <<>>]
    ELSE [days |-> Normalized(schedule).days,
          timeSlots |-> Normalized(schedule).timeSlots]

\* what a cell of the list shows: 'Not specified' or the parts of a text
NotSpecified == [specified |-> FALSE, parts |-> <<>>]

Shown(parts) == [specified |-> TRUE, parts |-> parts]

\* array.join(', ')
RECURSIVE Join(_)
Join(items) ==
    IF Len(items) <= 1 THEN items
    ELSE <<items[1], ", ">> \o Join(Tail(items))

\* formatDays(schedule)
formatDays(schedule) ==
    IF Falsy(schedule) \/ Normalized(schedule).outcome # "object"
    THEN NotSpecified
    ELSE Shown(Join(Normalized(schedule).days))

\* `${slot.startTime} - ${slot.endTime}${duration}` of formatTimeSlots,
\* duration being the hours and minutes when durationMinutes is truthy
FormattedSlot(slot) ==
    [startTime |-> slot.startTime, endTime |-> slot.endTime,
     duration |-> IF slot.durationMinutes # 0
                  THEN <<slot.durationMinutes \div 60, slot.durationMinutes % 60>>
                  ELSE <<>>]

\* formatTimeSlots(schedule): the formatted slots that have both times, which
\* it joins; 'Not specified' when there are none
formatTimeSlots(schedule) ==
    IF Falsy(schedule) \/ Normalized(schedule).outcome # "object"
    THEN NotSpecified
    ELSE LET complete == SelectSeq(Normalized(schedule).timeSlots,
                                   LAMBDA slot : slot.startTime # <<>> /\ slot.endTime # <<>>)
             formatted == [i \in 1..Len(complete) |-> FormattedSlot(complete[i])]
         IN  IF formatted = <<>> THEN NotSpecified ELSE Shown(formatted)

\* editFormData = {}: there is no schedule key
EmptyFormData == [hasSchedule |-> FALSE, schedule |-> [days |-> <<>>, timeSlots |-> <<>>]]

\* the mutation before any mutate()
IdleMutation == [status |-> "idle", nDays |-> 0, nSlots |-> 0]

\* the page as it mounts, its list showing a batch with `schedule`
BatchesListMounted(schedule) ==
    /\ batchSchedule = schedule
    /\ selectedBatch = FALSE
    /\ isEditModalOpen = FALSE
    /\ editFormData = EmptyFormData
    /\ updateBatchMutation = IdleMutation
    /\ isViewModalOpen = FALSE
    /\ isDeleteModalOpen = FALSE
    /\ deleteBatchMutation = "idle"

\* calculateDuration of the edit modal
editCalculateDuration(start, end) ==
    IF start = <<>> \/ end = <<>> THEN 0
    ELSE LET startParts == SplitColon(start)
             endParts == SplitColon(end)
             startTotal == ToNumber(startParts[1]) * 60 + ToNumber(startParts[2])
             endTotal == ToNumber(endParts[1]) * 60 + ToNumber(endParts[2])
         IN  Max(0, endTotal - startTotal)

\* handleTimeChange of slot `index` of the edit modal: the new list
editHandleTimeChange(slots, index, field, value) ==
    LET old == slots[index]
        set == IF field = "startTime" THEN [old EXCEPT !.startTime = value]
                                      ELSE [old EXCEPT !.endTime = value]
        new == IF field = "startTime" /\ set.endTime # <<>>
               THEN [set EXCEPT !.durationMinutes =
                                   editCalculateDuration(value, set.endTime)]
               ELSE IF field = "endTime" /\ set.startTime # <<>>
                    THEN [set EXCEPT !.durationMinutes =
                                        editCalculateDuration(set.startTime, value)]
                    ELSE set
    IN  [slots EXCEPT ![index] = new]

\* handleDurationChange of slot `index` of the edit modal: the new list
editHandleDurationChange(slots, index, value) ==
    [slots EXCEPT ![index].durationMinutes = Max(0, value)]

\* handleRemove of slot `index` of the edit modal: the new list
editHandleRemove(slots, index) == RemoveAt(slots, index)

\* the onChange of a day checkbox of the edit modal
editToggleDay(days, day) ==
    IF day \in SeqToSet(days)
    THEN SelectSeq(days, LAMBDA d : d # day)
    ELSE Append(days, day)

\* editFormData.schedule || { days: [], timeSlots: [] }
ScheduleOf(data) == data.schedule

\* setEditFormData({ ...editFormData, schedule: { ...schedule, [key]: value } })
WithDays(data, days) ==
    [hasSchedule |-> TRUE, schedule |-> [ScheduleOf(data) EXCEPT !.days = days]]

WithTimeSlots(data, slots) ==
    [hasSchedule |-> TRUE, schedule |-> [ScheduleOf(data) EXCEPT !.timeSlots = slots]]

\* what handleEditSubmit hands to updateBatchMutation.mutate: editFormData
\* as it is; of the request the model keeps how many days and slots it has
UpdateRequest(data) ==
    [status |-> "pending",
     nDays |-> Len(ScheduleOf(data).days),
     nSlots |-> Len(ScheduleOf(data).timeSlots)]

OnBatchesList == page = "batches-list"

\* the edit modal is rendered
EditModalShown == OnBatchesList /\ isEditModalOpen /\ selectedBatch

EditFrame == UNCHANGED <<page, attVars, wizardVars, otherVars, invalidated>>

\* what the list modals leave alone besides the state of the page
ListFrame ==
    UNCHANGED <<page, attVars, wizardVars, authVars, reportVars, progressVars,
                dashboardVars, invalidated>>

\* the roles a signed-in user has
Roles == {"superadmin", "admin", "faculty", "employee", "student"}

\* a list that renders the admin controls for every user
isAdminEveryone == TRUE

\* isAdmin of BatchesList and of BatchProgressList
isAdmin == userRole = "admin" \/ userRole = "superadmin"

\* none of the three modals covers the list
NoModalOpen == ~isViewModalOpen /\ ~isEditModalOpen /\ ~isDeleteModalOpen

\* handleEdit(batch), behind the Edit button of the list, rendered for admins
handleEdit ==
    /\ OnBatchesList /\ NoModalOpen /\ isAdmin
    /\ selectedBatch' = TRUE
    /\ editFormData' = [hasSchedule |-> TRUE, schedule |-> getScheduleObject(batchSchedule)]
    /\ isEditModalOpen' = TRUE
    /\ UNCHANGED <<batchSchedule, updateBatchMutation>>
    /\ EditFrame

\* the Cancel button of the edit modal
CancelEdit ==
    /\ EditModalShown
    /\ isEditModalOpen' = FALSE
    /\ selectedBatch' = FALSE
    /\ editFormData' = EmptyFormData
    /\ UNCHANGED <<batchSchedule, updateBatchMutation>>
    /\ EditFrame

\* a day checkbox of the edit modal
EditToggleDay(day) ==
    /\ EditModalShown
    /\ editFormData' =
          WithDays(editFormData, editToggleDay(ScheduleOf(editFormData).days, day))
    /\ UNCHANGED <<batchSchedule, selectedBatch, isEditModalOpen, updateBatchMutation>>
    /\ EditFrame

\* the "+ Add Time Slot" button of the edit modal
EditAddTimeSlot ==
    /\ EditModalShown
    /\ Len(ScheduleOf(editFormData).timeSlots) < MaxSlots
    /\ editFormData' =
          WithTimeSlots(editFormData, Append(ScheduleOf(editFormData).timeSlots, NewSlot))
    /\ UNCHANGED <<batchSchedule, selectedBatch, isEditModalOpen, updateBatchMutation>>
    /\ EditFrame

\* the start and end time inputs of slot `index` of the edit modal
EditTimeChange(index, field, value) ==
    /\ EditModalShown
    /\ index \in 1..Len(ScheduleOf(editFormData).timeSlots)
    /\ editFormData' =
          WithTimeSlots(editFormData,
              editHandleTimeChange(ScheduleOf(editFormData).timeSlots, index, field, value))
    /\ UNCHANGED <<batchSchedule, selectedBatch, isEditModalOpen, updateBatchMutation>>
    /\ EditFrame

\* the duration input of slot `index` of the edit modal
EditDurationChange(index, value) ==
    /\ EditModalShown
    /\ index \in 1..Len(ScheduleOf(editFormData).timeSlots)
    /\ editFormData' =
          WithTimeSlots(editFormData,
              editHandleDurationChange(ScheduleOf(editFormData).timeSlots, index, value))
    /\ UNCHANGED <<batchSchedule, selectedBatch, isEditModalOpen, updateBatchMutation>>
    /\ EditFrame

\* the Remove button of slot `index` of the edit modal, rendered while there
\* is more than one slot
EditRemoveSlot(index) ==
    /\ EditModalShown
    /\ index \in 1..Len(ScheduleOf(editFormData).timeSlots)
    /\ Len(ScheduleOf(editFormData).timeSlots) > 1
    /\ editFormData' =
          WithTimeSlots(editFormData,
              editHandleRemove(ScheduleOf(editFormData).timeSlots, index))
    /\ UNCHANGED <<batchSchedule, selectedBatch, isEditModalOpen, updateBatchMutation>>
    /\ EditFrame

\* handleEditSubmit behind the "Update Batch" button (disabled while the
\* mutation is pending)
handleEditSubmit ==
    /\ EditModalShown
    /\ updateBatchMutation.status # "pending"
    /\ updateBatchMutation' = UpdateRequest(editFormData)
    /\ UNCHANGED <<batchSchedule, selectedBatch, isEditModalOpen, editFormData>>
    /\ EditFrame

\* updateBatch resolves: onSuccess invalidates ['batches'], closes the modal
\* and clears the form
UpdateBatchSucceeds ==
    /\ OnBatchesList /\ updateBatchMutation.status = "pending"
    /\ updateBatchMutation' = [updateBatchMutation EXCEPT !.status = "success"]
    /\ isEditModalOpen' = FALSE
    /\ selectedBatch' = FALSE
    /\ editFormData' = EmptyFormData
    /\ invalidated' = invalidated \cup {"batches"}
    /\ UNCHANGED batchSchedule
    /\ UNCHANGED <<page, attVars, wizardVars, otherVars>>

\* updateBatch rejects: the modal shows the error
UpdateBatchFails ==
    /\ OnBatchesList /\ updateBatchMutation.status = "pending"
    /\ updateBatchMutation' = [updateBatchMutation EXCEPT !.status = "error"]
    /\ UNCHANGED <<batchSchedule, selectedBatch, isEditModalOpen, editFormData>>
    /\ EditFrame

\* handleView(batch), behind the View button every user sees
handleView ==
    /\ OnBatchesList /\ NoModalOpen
    /\ selectedBatch' = TRUE
    /\ isViewModalOpen' = TRUE
    /\ UNCHANGED <<isDeleteModalOpen, deleteBatchMutation, currentEnrollment>>
    /\ UNCHANGED <<batchSchedule, isEditModalOpen, editFormData, updateBatchMutation>>
    /\ ListFrame

\* the two close buttons of the view modal
CloseView ==
    /\ OnBatchesList /\ isViewModalOpen /\ selectedBatch
    /\ isViewModalOpen' = FALSE
    /\ selectedBatch' = FALSE
    /\ UNCHANGED <<isDeleteModalOpen, deleteBatchMutation, currentEnrollment>>
    /\ UNCHANGED <<batchSchedule, isEditModalOpen, editFormData, updateBatchMutation>>
    /\ ListFrame

\* handleDelete(batch), behind the Delete button rendered for admins
handleDelete ==
    /\ OnBatchesList /\ NoModalOpen /\ isAdmin
    /\ selectedBatch' = TRUE
    /\ isDeleteModalOpen' = TRUE
    /\ UNCHANGED <<isViewModalOpen, deleteBatchMutation, currentEnrollment>>
    /\ UNCHANGED <<batchSchedule, isEditModalOpen, editFormData, updateBatchMutation>>
    /\ ListFrame

\* the delete modal is rendered
DeleteModalShown == OnBatchesList /\ isDeleteModalOpen /\ selectedBatch

\* the Cancel button of the delete modal
CancelDelete ==
    /\ DeleteModalShown
    /\ isDeleteModalOpen' = FALSE
    /\ selectedBatch' = FALSE
    /\ UNCHANGED <<isViewModalOpen, deleteBatchMutation, currentEnrollment>>
    /\ UNCHANGED <<batchSchedule, isEditModalOpen, editFormData, updateBatchMutation>>
    /\ ListFrame

\* a Delete button that is disabled only while a delete is pending
DeleteDisabledWhilePending == deleteBatchMutation = "pending"

\* the disabled attribute of the Delete button of the modal
DeleteDisabled == deleteBatchMutation = "pending" \/ currentEnrollment > 0

\* handleDeleteConfirm behind the Delete button of the modal
handleDeleteConfirm ==
    /\ DeleteModalShown
    /\ ~DeleteDisabled
    /\ deleteBatchMutation' = "pending"
    /\ UNCHANGED <<isViewModalOpen, isDeleteModalOpen, currentEnrollment>>
    /\ UNCHANGED editVars
    /\ ListFrame

\* deleteBatch resolves: onSuccess invalidates ['batches'], closes the modal
\* and clears the selection
DeleteBatchSucceeds ==
    /\ OnBatchesList /\ deleteBatchMutation = "pending"
    /\ deleteBatchMutation' = "success"
    /\ invalidated' = invalidated \cup {"batches"}
    /\ isDeleteModalOpen' = FALSE
    /\ selectedBatch' = FALSE
    /\ UNCHANGED <<isViewModalOpen, currentEnrollment>>
    /\ UNCHANGED <<batchSchedule, isEditModalOpen, editFormData, updateBatchMutation>>
    /\ UNCHANGED <<page, attVars, wizardVars, authVars, reportVars, progressVars,
                   dashboardVars>>

\* deleteBatch rejects: the modal shows the error
DeleteBatchFails ==
    /\ OnBatchesList /\ deleteBatchMutation = "pending"
    /\ deleteBatchMutation' = "error"
    /\ UNCHANGED <<isViewModalOpen, isDeleteModalOpen, currentEnrollment>>
    /\ UNCHANGED editVars
    /\ ListFrame

----------------------------------------------------------------------------
(* Part E: the allocation modal of the batch-progress list (BatchProgressList) *)

\* the page as it mounts
BatchProgressMounted ==
    /\ isAllocateModalOpen = FALSE
    /\ allocationBatch = FALSE
    /\ assignFacultyMutation = "idle"

OnBatchProgress == page = "batch-progress"

\* the allocation modal is rendered
AllocateModalShown == OnBatchProgress /\ isAllocateModalOpen /\ allocationBatch

ProgressFrame ==
    UNCHANGED <<page, attVars, wizardVars, editVars, authVars, listVars,
                reportVars, dashboardVars, invalidated>>

\* handleOpenAllocateModal(batch), behind the button of the column rendered
\* for admins
handleOpenAllocateModal ==
    /\ OnBatchProgress /\ ~isAllocateModalOpen /\ isAdmin
    /\ allocationBatch' = TRUE
    /\ isAllocateModalOpen' = TRUE
    /\ UNCHANGED assignFacultyMutation
    /\ ProgressFrame

\* the close and Cancel buttons of the allocation modal
CloseAllocateModal ==
    /\ AllocateModalShown
    /\ isAllocateModalOpen' = FALSE
    /\ allocationBatch' = FALSE
    /\ UNCHANGED assignFacultyMutation
    /\ ProgressFrame

\* handleAllocateSubmit behind "Save Allocation" (disabled while the mutation
\* is pending)
handleAllocateSubmit ==
    /\ AllocateModalShown
    /\ assignFacultyMutation # "pending"
    /\ assignFacultyMutation' = "pending"
    /\ UNCHANGED <<isAllocateModalOpen, allocationBatch>>
    /\ ProgressFrame

\* assignFaculty resolves: onSuccess invalidates ['batch-progress'], closes
\* the modal and clears the selection
AssignFacultySucceeds ==
    /\ OnBatchProgress /\ assignFacultyMutation = "pending"
    /\ assignFacultyMutation' = "success"
    /\ invalidated' = invalidated \cup {"batch-progress"}
    /\ isAllocateModalOpen' = FALSE
    /\ allocationBatch' = FALSE
    /\ UNCHANGED <<page, attVars, wizardVars, editVars, authVars, listVars,
                   reportVars, dashboardVars>>

\* assignFaculty rejects: the modal shows the error
AssignFacultyFails ==
    /\ OnBatchProgress /\ assignFacultyMutation = "pending"
    /\ assignFacultyMutation' = "error"
    /\ UNCHANGED <<isAllocateModalOpen, allocationBatch>>
    /\ ProgressFrame

----------------------------------------------------------------------------
(* Part F: check-in and check-out on the faculty dashboard (FacultyDashboard) *)

\* the two mutations before any mutate()
DashboardMounted ==
    /\ checkinMutation = "idle"
    /\ checkoutMutation = "idle"

OnDashboard == page = "faculty-dashboard"

DashboardFrame ==
    UNCHANGED <<page, attVars, wizardVars, editVars, authVars, listVars,
                reportVars, progressVars, invalidated>>

\* handleCheckin behind "Start Session" (disabled while the mutation is
\* pending), the confirm dialog answered with OK
handleCheckin ==
    /\ OnDashboard /\ ~isOpen
    /\ checkinMutation # "pending"
    /\ checkinMutation' = "pending"
    /\ UNCHANGED checkoutMutation
    /\ DashboardFrame

\* checkinSession resolves: onSuccess invalidates ['faculty-sessions', userId]
CheckinSucceeds ==
    /\ OnDashboard /\ checkinMutation = "pending"
    /\ checkinMutation' = "success"
    /\ invalidated' = invalidated \cup {"faculty-sessions"}
    /\ UNCHANGED checkoutMutation
    /\ UNCHANGED <<page, attVars, wizardVars, editVars, authVars, listVars,
                   reportVars, progressVars>>

\* checkinSession rejects
CheckinFails ==
    /\ OnDashboard /\ checkinMutation = "pending"
    /\ checkinMutation' = "error"
    /\ UNCHANGED checkoutMutation
    /\ DashboardFrame

\* handleCheckout behind "End Session" (disabled while the mutation is
\* pending), the confirm dialog answered with OK
handleCheckout ==
    /\ OnDashboard /\ ~isOpen
    /\ checkoutMutation # "pending"
    /\ checkoutMutation' = "pending"
    /\ UNCHANGED checkinMutation
    /\ DashboardFrame

\* checkoutSession resolves: onSuccess invalidates ['faculty-sessions', userId]
CheckoutSucceeds ==
    /\ OnDashboard /\ checkoutMutation = "pending"
    /\ checkoutMutation' = "success"
    /\ invalidated' = invalidated \cup {"faculty-sessions"}
    /\ UNCHANGED checkinMutation
    /\ UNCHANGED <<page, attVars, wizardVars, editVars, authVars, listVars,
                   reportVars, progressVars>>

\* checkoutSession rejects
CheckoutFails ==
    /\ OnDashboard /\ checkoutMutation = "pending"
    /\ checkoutMutation' = "error"
    /\ UNCHANGED checkinMutation
    /\ DashboardFrame

----------------------------------------------------------------------------
(* Part D: the reports page (src/src/pages/Reports.tsx) *)

\* the ids of reportTypes
ReportTypes ==
    {"all-analysis", "student-current-batch", "students-without-batch",
     "batch-attendance", "student-attendance", "batches-by-faculty",
     "pending-payments", "monthwise-payments", "portfolio-status"}

\* the keys the filter inputs set
FilterKeys == {"studentId", "batchId", "from", "to", "facultyId", "month", "year"}

\* filters = {}: every key is missing
NoFilters == [k \in FilterKeys |-> ""]

\* the value the model types into the input of a filter
FilterInput(k) ==
    CASE k = "studentId" -> "7"
      [] k = "batchId" -> "3"
      [] k = "from" -> "2024-01-01"
      [] k = "to" -> "2024-01-31"
      [] k = "facultyId" -> "5"
      [] k = "month" -> "4"
      [] k = "year" -> "2024"

\* the filter inputs the page renders for the selected report type
FilterInputsOf(reportType) ==
    (IF reportType \in {"student-current-batch", "student-attendance"}
     THEN {"studentId"} ELSE {})
    \cup (IF reportType = "batch-attendance" THEN {"batchId", "from", "to"} ELSE {})
    \cup (IF reportType = "student-attendance" THEN {"from", "to"} ELSE {})
    \cup (IF reportType = "batches-by-faculty" THEN {"facultyId", "from", "to"} ELSE {})
    \cup (IF reportType = "monthwise-payments" THEN {"month", "year"} ELSE {})

\* a promise of fetchReport that rejects before any request: throw new Error(message)
Rejected(message) == [kind |-> "rejected", message |-> message, endpoint |-> <<>>]

\* api.get(endpoint); the endpoint is the sequence of the pieces of its template literal
Http(endpoint) == [kind |-> "http", message |-> "", endpoint |-> endpoint]

\* ${cond ? piece : ''}
Piece(cond, piece) == IF cond THEN piece ELSE <<>>

\* a separator that is '&' whatever came before
SeparatorAmpersand(cond) == "&"

\* cond ? '&' : '?'
Separator(cond) == IF cond THEN "&" ELSE "?"

\* a fetchReport that requests without looking at its mandatory filter or at
\* the report type
fetchReportUnvalidated(reportType, params) ==
    Http(<<"/reports/", reportType, "?", "studentId=", params.studentId,
           "&", "batchId=", params.batchId>>)

\* fetchReport(reportType, params) up to its api.get
fetchReport(reportType, params) ==
    CASE reportType = "all-analysis" -> Http(<<"/reports/all-analysis">>)
      [] reportType = "student-current-batch" ->
            IF params.studentId = "" THEN Rejected("Student ID is required")
            ELSE Http(<<"/reports/student/", params.studentId, "/current-batch">>)
      [] reportType = "students-without-batch" ->
            Http(<<"/reports/students-without-batch">>)
      [] reportType = "batch-attendance" ->
            IF params.batchId = "" THEN Rejected("Batch ID is required")
            ELSE Http(<<"/reports/batch-attendance", "?", "batchId=", params.batchId>>
                      \o Piece(params.from # "", <<"&", "from=", params.from>>)
                      \o Piece(params.to # "", <<"&", "to=", params.to>>))
      [] reportType = "student-attendance" ->
            IF params.studentId = "" THEN Rejected("Student ID is required")
            ELSE Http(<<"/reports/student/", params.studentId, "/attendance">>
                      \o Piece(params.from # "", <<"?", "from=", params.from>>)
                      \o Piece(params.to # "",
                               <<Separator(params.from # ""), "to=", params.to>>))
      [] reportType = "batches-by-faculty" ->
            Http(<<"/reports/batches-by-faculty">>
                 \o Piece(params.facultyId # "", <<"?", "facultyId=", params.facultyId>>)
                 \o Piece(params.from # "",
                          <<Separator(params.facultyId # ""), "from=", params.from>>)
                 \o Piece(params.to # "",
                          <<Separator(params.from # "" \/ params.facultyId # ""),
                            "to=", params.to>>))
      [] reportType = "pending-payments" -> Http(<<"/reports/pending-payments">>)
      [] reportType = "monthwise-payments" ->
            Http(<<"/reports/monthwise-payments">>
                 \o Piece(params.month # "", <<"?", "month=", params.month>>)
                 \o Piece(params.year # "",
                          <<Separator(params.month # ""), "year=", params.year>>))
      [] reportType = "portfolio-status" -> Http(<<"/reports/portfolio-status">>)
      [] OTHER -> Rejected("Invalid report type")

\* no promise is awaited
NoRequest == [type |-> "", call |-> [kind |-> "none", message |-> "", endpoint |-> <<>>]]

\* A payload (reportData.data) is known by the kind of value each field the
\* templates look at holds: "undefined", "null", "array" or "object"; the
\* summary is "analysis" when it is an object with students and batches.
PayloadFields ==
    {"payments", "summary", "students", "portfolios", "student", "currentBatch",
     "attendances", "batch", "statistics", "facultyStatistics", "monthlyStatistics"}

UnknownPayload == [f \in PayloadFields |-> "undefined"]

\* JavaScript truthiness of a field
Truthy(kind) == kind \notin {"undefined", "null"}

\* Array.isArray
IsArray(kind) == kind = "array"

\* reportData = null
NoReport == [isNull |-> TRUE, hasData |-> FALSE, data |-> UnknownPayload]

\* a response body whose data field holds `payload`
Response(payload) == [isNull |-> FALSE, hasData |-> TRUE, data |-> payload]

\* a response body without a data field
ResponseWithoutData == [isNull |-> FALSE, hasData |-> FALSE, data |-> UnknownPayload]

PendingPaymentsPayload ==
    [UnknownPayload EXCEPT !.payments = "array", !.summary = "object"]

AllAnalysisPayload == [UnknownPayload EXCEPT !.summary = "analysis"]

\* payments next to a summary that has students and batches
PaymentsAndAnalysisPayload ==
    [UnknownPayload EXCEPT !.payments = "array", !.summary = "analysis"]

StudentsWithoutBatchPayload == [UnknownPayload EXCEPT !.students = "array"]

\* students that is no array
StudentsObjectPayload == [UnknownPayload EXCEPT !.students = "object"]

PortfolioStatusPayload == [UnknownPayload EXCEPT !.portfolios = "array"]

StudentCurrentBatchPayload ==
    [UnknownPayload EXCEPT !.student = "object", !.currentBatch = "object"]

StudentAttendancePayload ==
    [UnknownPayload EXCEPT !.student = "object", !.attendances = "array",
                           !.statistics = "object"]

\* a student with a current batch and attendances
StudentBatchAndAttendancePayload ==
    [UnknownPayload EXCEPT !.student = "object", !.currentBatch = "object",
                           !.attendances = "array"]

BatchAttendancePayload ==
    [UnknownPayload EXCEPT !.batch = "object", !.statistics = "object"]

BatchesByFacultyPayload == [UnknownPayload EXCEPT !.facultyStatistics = "array"]

MonthwisePaymentsPayload == [UnknownPayload EXCEPT !.monthlyStatistics = "array"]

\* the response bodies the server answers a report request with
ResponseInputs ==
    {Response(p) : p \in {PendingPaymentsPayload, AllAnalysisPayload,
                          PaymentsAndAnalysisPayload, StudentsWithoutBatchPayload,
                          StudentsObjectPayload, PortfolioStatusPayload,
                          StudentCurrentBatchPayload, StudentAttendancePayload,
                          StudentBatchAndAttendancePayload, BatchAttendancePayload,
                          BatchesByFacultyPayload, MonthwisePaymentsPayload,
                          UnknownPayload}}
    \cup {ResponseWithoutData}

\* the errors a request fails with: error.response?.data?.message and
\* error.message, "" when missing
FailureInputs ==
    {[serverMessage |-> "Report not found", message |-> "Request failed with status code 404"],
     [serverMessage |-> "", message |-> "Network Error"],
     [serverMessage |-> "", message |-> ""]}

\* error.response?.data?.message || error.message || 'Failed to generate report'
ErrorMessage(err) ==
    IF err.serverMessage # "" THEN err.serverMessage
    ELSE IF err.message # "" THEN err.message
    ELSE "Failed to generate report"

\* a renderContent that looks for the analysis summary first
renderContentAnalysisFirst(data) ==
    IF Truthy(data.summary) /\ data.summary = "analysis" THEN "all-analysis"
    ELSE IF data.payments # "undefined" /\ Truthy(data.summary) THEN "pending-payments"
    ELSE IF Truthy(data.students) /\ IsArray(data.students) THEN "students-without-batch"
    ELSE IF Truthy(data.portfolios) /\ IsArray(data.portfolios) THEN "portfolio-status"
    ELSE IF Truthy(data.student) /\ Truthy(data.currentBatch) THEN "student-current-batch"
    ELSE IF Truthy(data.student) /\ Truthy(data.attendances) THEN "student-attendance"
    ELSE IF Truthy(data.batch) /\ Truthy(data.statistics) THEN "batch-attendance"
    ELSE IF Truthy(data.facultyStatistics) /\ IsArray(data.facultyStatistics)
         THEN "batches-by-faculty"
    ELSE IF Truthy(data.monthlyStatistics) /\ IsArray(data.monthlyStatistics)
         THEN "monthwise-payments"
    ELSE "raw-json"

\* renderContent: the template the chain of ifs returns
renderContent(data) ==
    IF data.payments # "undefined" /\ Truthy(data.summary) THEN "pending-payments"
    ELSE IF Truthy(data.summary) /\ data.summary = "analysis" THEN "all-analysis"
    ELSE IF Truthy(data.students) /\ IsArray(data.students) THEN "students-without-batch"
    ELSE IF Truthy(data.portfolios) /\ IsArray(data.portfolios) THEN "portfolio-status"
    ELSE IF Truthy(data.student) /\ Truthy(data.currentBatch) THEN "student-current-batch"
    ELSE IF Truthy(data.student) /\ Truthy(data.attendances) THEN "student-attendance"
    ELSE IF Truthy(data.batch) /\ Truthy(data.statistics) THEN "batch-attendance"
    ELSE IF Truthy(data.facultyStatistics) /\ IsArray(data.facultyStatistics)
         THEN "batches-by-faculty"
    ELSE IF Truthy(data.monthlyStatistics) /\ IsArray(data.monthlyStatistics)
         THEN "monthwise-payments"
    ELSE "raw-json"

\* renderReportData: "nothing" when it returns null
renderReportData(data) ==
    IF data.isNull \/ ~data.hasData THEN "nothing" ELSE renderContent(data.data)

\* the page as it mounts
ReportsMounted ==
    /\ selectedReport = ""
    /\ filters = NoFilters
    /\ reportData = NoReport
    /\ isLoading = FALSE
    /\ error = ""
    /\ reportRequest = NoRequest

OnReports == page = "reports"

\* a rejected fetchReport is handled in the same task: nothing else happens
\* between the throw and the catch
NoCatchPending == reportRequest.call.kind # "rejected"

ReportsFrame ==
    UNCHANGED <<page, attVars, wizardVars, editVars, authVars, listVars,
                progressVars, dashboardVars, invalidated>>

\* the onClick of a report type in the sidebar
SelectReport(id) ==
    /\ OnReports /\ NoCatchPending
    /\ selectedReport' = id
    /\ filters' = NoFilters
    /\ reportData' = NoReport
    /\ error' = ""
    /\ UNCHANGED <<isLoading, reportRequest>>
    /\ ReportsFrame

\* the onChange of a filter input: setFilters({ ...filters, [key]: value })
SetFilter(key, value) ==
    /\ OnReports /\ NoCatchPending
    /\ key \in FilterInputsOf(selectedReport)
    /\ filters' = [filters EXCEPT ![key] = value]
    /\ UNCHANGED <<selectedReport, reportData, isLoading, error, reportRequest>>
    /\ ReportsFrame

\* a handleGenerateReport without its setReportData(null)
handleGenerateReportKeepsData ==
    /\ OnReports /\ NoCatchPending
    /\ IF selectedReport = ""
       THEN /\ error' = "Please select a report type"
            /\ UNCHANGED <<isLoading, reportData, reportRequest>>
       ELSE /\ isLoading' = TRUE
            /\ error' = ""
            /\ reportRequest' = [type |-> selectedReport,
                                 call |-> fetchReport(selectedReport, filters)]
            /\ UNCHANGED reportData
    /\ UNCHANGED <<selectedReport, filters>>
    /\ ReportsFrame

\* handleGenerateReport up to its await
handleGenerateReport ==
    /\ OnReports /\ NoCatchPending
    /\ IF selectedReport = ""
       THEN /\ error' = "Please select a report type"
            /\ UNCHANGED <<isLoading, reportData, reportRequest>>
       ELSE /\ isLoading' = TRUE
            /\ error' = ""
            /\ reportData' = NoReport
            /\ reportRequest' = [type |-> selectedReport,
                                 call |-> fetchReport(selectedReport, filters)]
    /\ UNCHANGED <<selectedReport, filters>>
    /\ ReportsFrame

\* the Generate button: rendered once a report type is selected, disabled
\* while isLoading
GenerateButton ==
    /\ selectedReport # ""
    /\ ~isLoading
    /\ handleGenerateReport

\* handleGenerateReport called with no report type selected: the handler's own
\* guard (the page offers no Generate button in that state)
GenerateWithoutSelection ==
    /\ selectedReport = ""
    /\ ~isLoading
    /\ handleGenerateReport

\* fetchReport threw: catch sets the error, finally ends the loading
ValidationRejects ==
    /\ OnReports /\ reportRequest.call.kind = "rejected"
    /\ error' = ErrorMessage([serverMessage |-> "", message |-> reportRequest.call.message])
    /\ isLoading' = FALSE
    /\ reportRequest' = NoRequest
    /\ UNCHANGED <<selectedReport, filters, reportData>>
    /\ ReportsFrame

\* the request resolves: setReportData(response.data), finally ends the loading
ReportSucceeds(body) ==
    /\ OnReports /\ reportRequest.call.kind = "http"
    /\ reportData' = body
    /\ isLoading' = FALSE
    /\ reportRequest' = NoRequest
    /\ UNCHANGED <<selectedReport, filters, error>>
    /\ ReportsFrame

\* the request rejects: catch sets the error, finally ends the loading
ReportFails(err) ==
    /\ OnReports /\ reportRequest.call.kind = "http"
    /\ error' = ErrorMessage(err)
    /\ isLoading' = FALSE
    /\ reportRequest' = NoRequest
    /\ UNCHANGED <<selectedReport, filters, reportData>>
    /\ ReportsFrame

----------------------------------------------------------------------------
(* Part G: the stored session (src/src/api/auth.api.ts) *)

\* the entries authAPI.logout removes
SessionKeys == {"token", "user", "originalUser", "originalSession"}

\* the keys of window.localStorage: the session's and one of somebody else
StorageKeys == SessionKeys \cup {"other"}

\* what a key may hold: "" when the key is absent, or one of two strings
StoredValues == {"", "s1", "s2"}

\* localStorage.removeItem(key)
removeItem(storage, key) == [storage EXCEPT ![key] = ""]

\* a logout that forgets the impersonation bookkeeping
logoutTokenAndUser(storage) == removeItem(removeItem(storage, "token"), "user")

\* authAPI.logout
logout(storage) ==
    removeItem(removeItem(removeItem(removeItem(storage,
        "token"), "user"), "originalUser"), "originalSession")

\* what the browser holds once a user has signed in without impersonating
StoredSession == [k \in StorageKeys |-> IF k \in {"token", "user"} THEN "s1" ELSE ""]

\* authAPI.logout() is called
Logout ==
    /\ localStorage' = logout(localStorage)
    /\ UNCHANGED <<attVars, page, wizardVars, editVars, userRole, listVars, reportVars,
                   progressVars, dashboardVars, invalidated>>

----------------------------------------------------------------------------
(* Specifications *)

\* the application as `role` signs in: nothing invalidated yet, the listed
\* batch holding `enrolled` students, the reports page, the batch-progress
\* list and the dashboard's mutations as they mount
Mounted(role, enrolled) ==
    /\ userRole = role
    /\ currentEnrollment = enrolled
    /\ invalidated = {}
    /\ ReportsMounted
    /\ BatchProgressMounted
    /\ DashboardMounted

SignedIn(role, enrolled) ==
    /\ Mounted(role, enrolled)
    /\ localStorage = StoredSession

NextAttendance ==
    \/ OpenModal
    \/ EnrollmentsArrive
    \/ AttendancesArrive
    \/ \E s \in Students : PresentButton(s)
    \/ \E s \in Students : ManualButton(s)
    \/ \E s \in Students : AbsentButton(s)
    \/ handleBulkSave
    \/ \E i \in 1..MaxInflight + 1 : MarkSucceeds(i)
    \/ \E i \in 1..MaxInflight + 1 : MarkFails(i)

\* the faculty dashboard and one opening of its attendance modal
InitAttendance ==
    /\ page = "faculty-dashboard"
    /\ AttendanceModalClosed
    /\ srvAtt \in [Students -> StatusOrNone]
    /\ WizardMounted(0)
    /\ BatchesListMounted(NoSchedule)
    /\ SignedIn("faculty", 0)

SpecAttendance == InitAttendance /\ [][NextAttendance]_vars

\* the modal opened, closed and opened again for one session while the
\* server's data stays as it is: mark calls are sent and fail or stay
\* unanswered, none reaches the server
NextReopen ==
    \/ OpenModal
    \/ CloseModal
    \/ EnrollmentsArrive
    \/ AttendancesArrive
    \/ \E s \in Students : PresentButton(s)
    \/ \E s \in Students : ManualButton(s)
    \/ \E s \in Students : AbsentButton(s)
    \/ \E i \in 1..MaxInflight + 1 : MarkFails(i)

SpecReopen == InitAttendance /\ [][NextReopen]_vars

\* the wizard of the batch-creation page from its first step; the contents
\* of the time slots, which no step of the wizard reads, are not edited
InitWizard ==
    /\ page = "batch-creation"
    /\ WizardMounted(0)
    /\ AttendanceModalClosed
    /\ srvAtt = EmptyRecord
    /\ BatchesListMounted(NoSchedule)
    /\ SignedIn("admin", 0)

NextWizard ==
    \/ \E v \in TextInputs : SetTitle(v)
    \/ \E v \in TextInputs : SetSoftware(v)
    \/ \E v \in ModeInputs : SetMode(v)
    \/ \E v \in TextInputs : SetStartDate(v)
    \/ \E v \in TextInputs : SetEndDate(v)
    \/ \E v \in CapacityInputs : SetMaxCapacity(v)
    \/ \E d \in DayInputs : ToggleDay(d)
    \/ AddTimeSlot
    \/ \E i \in 1..MaxSlots : RemoveSlot(i)
    \/ NextButton
    \/ CreateBatchSucceeds
    \/ CreateBatchFails
    \/ SuggestCandidatesSucceeds
    \/ SuggestCandidatesFails
    \/ handleBack
    \/ \E s \in 0..2 : StepClick(s)

SpecWizard == InitWizard /\ [][NextWizard]_vars

\* the two schedule editors by themselves: the second step of the wizard
\* with the empty form, or the edit modal of the batches list, which loads
\* the batch's schedule
InitSchedule ==
    /\ page \in {"batch-creation", "batches-list"}
    /\ WizardMounted(1)
    /\ \E s \in ServerSchedules :
          BatchesListMounted(IF page = "batches-list" THEN s ELSE NoSchedule)
    /\ AttendanceModalClosed
    /\ srvAtt = EmptyRecord
    /\ SignedIn("admin", 0)

NextSchedule ==
    \/ ToggleDay("Monday")
    \/ AddTimeSlot
    \/ \E i \in 1..MaxSlots, f \in {"startTime", "endTime"}, v \in TimeInputs :
          TimeChange(i, f, v)
    \/ \E i \in 1..MaxSlots, v \in DurationInputs : DurationChange(i, v)
    \/ \E i \in 1..MaxSlots : RemoveSlot(i)
    \/ handleEdit
    \/ CancelEdit
    \/ EditToggleDay("Monday")
    \/ EditAddTimeSlot
    \/ \E i \in 1..MaxSlots, f \in {"startTime", "endTime"}, v \in TimeInputs :
          EditTimeChange(i, f, v)
    \/ \E i \in 1..MaxSlots, v \in DurationInputs : EditDurationChange(i, v)
    \/ \E i \in 1..MaxSlots : EditRemoveSlot(i)

SpecSchedule == InitSchedule /\ [][NextSchedule]_vars

\* the batches list and the life of its edit modal up to the update request;
\* the contents of the time slots, which the submission does not read, are
\* not edited
InitEdit ==
    /\ page = "batches-list"
    /\ \E s \in ServerSchedules : BatchesListMounted(s)
    /\ WizardMounted(0)
    /\ AttendanceModalClosed
    /\ srvAtt = EmptyRecord
    /\ SignedIn("admin", 0)

NextEdit ==
    \/ handleEdit
    \/ CancelEdit
    \/ \E d \in DayInputs : EditToggleDay(d)
    \/ EditAddTimeSlot
    \/ \E i \in 1..MaxSlots : EditRemoveSlot(i)
    \/ handleEditSubmit
    \/ UpdateBatchSucceeds
    \/ UpdateBatchFails

SpecEdit == InitEdit /\ [][NextEdit]_vars

\* the reports page: report types are selected, filters typed, reports
\* generated and answered
InitReports ==
    /\ page = "reports"
    /\ SignedIn("admin", 0)
    /\ WizardMounted(0)
    /\ BatchesListMounted(NoSchedule)
    /\ AttendanceModalClosed
    /\ srvAtt = EmptyRecord

NextReports ==
    \/ \E id \in ReportTypes : SelectReport(id)
    \/ \E k \in FilterKeys : \E v \in {"", FilterInput(k)} : SetFilter(k, v)
    \/ GenerateButton
    \/ GenerateWithoutSelection
    \/ ValidationRejects
    \/ \E body \in ResponseInputs : ReportSucceeds(body)
    \/ \E err \in FailureInputs : ReportFails(err)

SpecReports == InitReports /\ [][NextReports]_vars

\* every request is answered and every catch block runs
FairReports ==
    /\ WF_vars(ValidationRejects)
    /\ WF_vars(\/ \E body \in ResponseInputs : ReportSucceeds(body)
               \/ \E err \in FailureInputs : ReportFails(err))

SpecReportsLive == SpecReports /\ FairReports

\* every page that mutates server data, one of them mounted: the dashboard
\* with check-in, check-out and the attendance modal, the creation wizard,
\* the batches list with its edit and delete modals, and the batch-progress
\* list with its allocation modal; in the attendance modal one student is
\* marked present and the calls are answered
InitMutations ==
    /\ page \in {"faculty-dashboard", "batch-creation", "batches-list", "batch-progress"}
    /\ SignedIn(IF page = "faculty-dashboard" THEN "faculty" ELSE "admin", 0)
    /\ WizardMounted(0)
    /\ BatchesListMounted(NoSchedule)
    /\ AttendanceModalClosed
    /\ srvAtt = EmptyRecord

NextMutations ==
    \/ handleCheckin
    \/ CheckinSucceeds
    \/ CheckinFails
    \/ handleCheckout
    \/ CheckoutSucceeds
    \/ CheckoutFails
    \/ OpenModal
    \/ EnrollmentsArrive
    \/ AttendancesArrive
    \/ PresentButton(Roster[1])
    \/ \E i \in 1..MaxInflight + 1 : MarkSucceeds(i)
    \/ NextWizard
    \/ handleEdit
    \/ CancelEdit
    \/ handleEditSubmit
    \/ UpdateBatchSucceeds
    \/ UpdateBatchFails
    \/ handleDelete
    \/ CancelDelete
    \/ handleDeleteConfirm
    \/ DeleteBatchSucceeds
    \/ DeleteBatchFails
    \/ handleOpenAllocateModal
    \/ CloseAllocateModal
    \/ handleAllocateSubmit
    \/ AssignFacultySucceeds
    \/ AssignFacultyFails

SpecMutations == InitMutations /\ [][NextMutations]_vars

\* the batches list or the batch-progress list in front of a user of any
\* role (or of none: user undefined), the listed batch with or without
\* enrolled students
InitRoles ==
    /\ page \in {"batches-list", "batch-progress"}
    /\ \E role \in Roles \cup {""}, enrolled \in {0, 1} : SignedIn(role, enrolled)
    /\ WizardMounted(0)
    /\ BatchesListMounted(ObjectSchedule(<<"Monday">>, <<MorningSlot>>))
    /\ AttendanceModalClosed
    /\ srvAtt = EmptyRecord

NextRoles ==
    \/ handleView
    \/ CloseView
    \/ handleEdit
    \/ CancelEdit
    \/ \E d \in DayInputs : EditToggleDay(d)
    \/ handleEditSubmit
    \/ UpdateBatchSucceeds
    \/ UpdateBatchFails
    \/ handleDelete
    \/ CancelDelete
    \/ handleDeleteConfirm
    \/ DeleteBatchSucceeds
    \/ DeleteBatchFails
    \/ handleOpenAllocateModal
    \/ CloseAllocateModal
    \/ handleAllocateSubmit
    \/ AssignFacultySucceeds
    \/ AssignFacultyFails

SpecRoles == InitRoles /\ [][NextRoles]_vars

\* the lists of days and of time slots of the schedules the list shows
DayLists == {<<>>, <<"Monday">>, <<"Monday", "Wednesday">>, <<"Wednesday", "Monday">>}

AfternoonSlot == [startTime |-> T1300, endTime |-> T1400, durationMinutes |-> 60]

SlotLists == {<<>>, <<NewSlot>>, <<MorningSlot>>, <<MorningSlot, AfternoonSlot>>}

\* the schedules that arrive as structured objects
StructuredSchedules == {ObjectSchedule(days, slots) : days \in DayLists, slots \in SlotLists}

\* the same schedule as the string of its JSON text
Serialized(schedule) == JsonSchedule(schedule.days, schedule.timeSlots)

\* strings that are no JSON: words, and a JSON text cut off before its end
UnparsableSchedules ==
    {StringSchedule(<<WordToken("Mon-Fri"), WordToken("mornings")>>),
     StringSchedule(SubSeq(JSONstringify(<<"Monday">>, <<MorningSlot>>), 1, 9))}

\* the batches list showing a batch whose schedule arrives in any of the
\* representations; an admin looks at it and opens its details and its edit
\* form
InitDisplay ==
    /\ page = "batches-list"
    /\ SignedIn("admin", 0)
    /\ \E s \in StructuredSchedules \cup {Serialized(o) : o \in StructuredSchedules}
                \cup UnparsableSchedules \cup {NoSchedule} :
          BatchesListMounted(s)
    /\ WizardMounted(0)
    /\ AttendanceModalClosed
    /\ srvAtt = EmptyRecord

NextDisplay ==
    \/ handleView
    \/ CloseView
    \/ handleEdit
    \/ CancelEdit
    \/ \E d \in DayInputs : EditToggleDay(d)

SpecDisplay == InitDisplay /\ [][NextDisplay]_vars

\* the day checkboxes of the two editors: the second step of the wizard with
\* the empty form, or the edit modal of a listed batch; days are ticked and
\* unticked in any order and time slots added
ToggleInputs == {"Monday", "Wednesday", "Friday", "Sunday"}

InitDays ==
    /\ page \in {"batch-creation", "batches-list"}
    /\ SignedIn("admin", 0)
    /\ WizardMounted(1)
    /\ \E s \in ServerSchedules :
          BatchesListMounted(IF page = "batches-list" THEN s ELSE NoSchedule)
    /\ AttendanceModalClosed
    /\ srvAtt = EmptyRecord

NextDays ==
    \/ \E d \in ToggleInputs : ToggleDay(d)
    \/ AddTimeSlot
    \/ handleEdit
    \/ CancelEdit
    \/ \E d \in ToggleInputs : EditToggleDay(d)
    \/ EditAddTimeSlot

SpecDays == InitDays /\ [][NextDays]_vars

\* the browser's storage in any state a session can have left it in: signed
\* in, impersonating, signed out or half written; authAPI.logout is called
\* any number of times
InitStorage ==
    /\ page = "login"
    /\ Mounted("", 0)
    /\ localStorage \in [StorageKeys -> StoredValues]
    /\ WizardMounted(0)
    /\ BatchesListMounted(NoSchedule)
    /\ AttendanceModalClosed
    /\ srvAtt = EmptyRecord

NextStorage == Logout

SpecStorage == InitStorage /\ [][NextStorage]_vars

----------------------------------------------------------------------------
(* Claims about the attendance modal (SpecAttendance) *)

\* the effect runs in this step: the modal mounts, or one of the two query
\* results it depends on changes
EffectRuns ==
    /\ isOpen'
    /\ \/ ~isOpen
       \/ attendancesData' # attendancesData
       \/ enrollmentsData' # enrollmentsData

\* the reconciled status of a student: the record's status if there is one,
\* ABSENT otherwise
Reconciled(records, s) == IF records[s] # NoStatus THEN records[s] ELSE "ABSENT"

\* C1: whenever the reconciliation runs with both the roster and the
\* attendance records loaded, studentAttendances maps every enrolled student
\* to the status of the student's record, and to ABSENT when there is none.
C1_DefaultPrecedence ==
    [][(EffectRuns /\ enrollmentsData'.loaded /\ attendancesData'.loaded)
          => \A s \in SeqToSet(enrollmentsData'.data) :
                studentAttendances'[s] = Reconciled(attendancesData'.data, s)]_vars

\* C2: every unanswered mark call carries isManual = TRUE exactly when its
\* status is MANUAL_PRESENT.
C2_IsManualIffManualPresent ==
    \A i \in 1..Len(inflight) :
        inflight[i].isManual <=> (inflight[i].status = "MANUAL_PRESENT")

\* C8: the failure of a mark call changes no entry of studentAttendances.
C8_NoRollbackOnFailure ==
    [][\A i \in 1..Len(inflight) :
          MarkFails(i) => studentAttendances' = studentAttendances]_vars

\* the latest call has failed, nothing is in flight, the cache agrees with
\* the server, and the modal still shows a status the server does not have
C8_Witness ==
    /\ isOpen
    /\ markAttendanceMutation = "error"
    /\ inflight = <<>>
    /\ attendancesData.loaded /\ ~attFetching /\ attendancesData.data = srvAtt
    /\ \E s \in Students :
          /\ studentAttendances[s] \in AttendanceStatus
          /\ studentAttendances[s] # srvAtt[s]

\* a step of one of the three buttons or of Save All
UserMarks ==
    \/ \E s \in Students : PresentButton(s) \/ ManualButton(s) \/ AbsentButton(s)
    \/ handleBulkSave

\* C9: a setStatus adds exactly one call, for its student and status, to the
\* unanswered calls; a failing call just leaves them; and no step other than
\* a button or Save All ever adds a call.
C9_OneCallPerSetStatus ==
    [][/\ \A s \in Students, st \in AttendanceStatus, m \in BOOLEAN :
             handleAttendanceChange(s, st, m)
                => /\ Len(inflight') = Len(inflight) + 1
                   /\ SubSeq(inflight', 1, Len(inflight)) = inflight
                   /\ inflight'[Len(inflight')].studentId = s
                   /\ inflight'[Len(inflight')].status = st
       /\ \A i \in 1..Len(inflight) :
             MarkFails(i) => inflight' = RemoveAt(inflight, i)
       /\ Len(inflight') > Len(inflight) => UserMarks]_vars

\* the one call of a setStatus has failed and nothing was sent after it
C9_Witness ==
    /\ isOpen
    /\ markAttendanceMutation = "error"
    /\ inflight = <<>>
    /\ \E s \in Students : studentAttendances[s] = "MANUAL_PRESENT"

\* C10: a setStatus sets the entry of its student in the step that sends the
\* call, so before any response to it, and leaves every other entry as it
\* was, whatever else is in flight.
C10_SetStatusFrame ==
    [][\A s \in Students, st \in AttendanceStatus, m \in BOOLEAN :
          handleAttendanceChange(s, st, m)
             => /\ studentAttendances'[s] = st
                /\ \A o \in Students \ {s} :
                      studentAttendances'[o] = studentAttendances[o]
                /\ inflight'[Len(inflight')] = MarkCall(s, st, m)]_vars

\* the call of a setStatus is unanswered, its student already shows the new
\* status, which the server does not have yet, and a mark of another
\* student, whose entry is set too, is still in flight
C10_Witness ==
    /\ isMarking
    /\ Len(inflight) >= 2
    /\ LET c == inflight[Len(inflight)]
       IN  /\ studentAttendances[c.studentId] = c.status
           /\ srvAtt[c.studentId] # c.status
           /\ \E j \in 1..(Len(inflight) - 1) :
                 /\ inflight[j].studentId # c.studentId
                 /\ studentAttendances[inflight[j].studentId] # NoStatus

\* the status Save All sends for a student
SavedStatus(s) ==
    IF studentAttendances[s] \in AttendanceStatus THEN studentAttendances[s]
    ELSE "ABSENT"

\* C11: Save All leaves studentAttendances alone; with the roster loaded it
\* adds one call per enrolled student, in roster order, carrying the
\* student's current status, or ABSENT when the student has no entry; with
\* the roster not loaded it adds no call.
C11_SaveAllCalls ==
    [][handleBulkSave
          => /\ studentAttendances' = studentAttendances
             /\ IF enrollmentsData.loaded
                THEN /\ Len(inflight') = Len(inflight) + Len(enrollmentsData.data)
                     /\ SubSeq(inflight', 1, Len(inflight)) = inflight
                     /\ \A k \in 1..Len(enrollmentsData.data) :
                           LET c == inflight'[Len(inflight) + k]
                           IN  /\ c.studentId = enrollmentsData.data[k]
                               /\ c.status = SavedStatus(c.studentId)
                ELSE inflight' = inflight]_vars

\* the calls of a Save All are unanswered: the first student's carries the
\* status the map holds, the second student has no entry and is sent ABSENT
C11_Witness ==
    /\ isOpen
    /\ Len(inflight) = 2
    /\ inflight[1] = MarkCall("s1", studentAttendances["s1"], FALSE)
    /\ studentAttendances["s1"] \in {"PRESENT", "MANUAL_PRESENT"}
    /\ studentAttendances["s2"] = NoStatus
    /\ inflight[2] = MarkCall("s2", "ABSENT", FALSE)

\* the Manual button of student s was pressed, its call is unanswered and the
\* map still shows the status it set
ManualChoiceShown(s) ==
    /\ isOpen
    /\ studentAttendances[s] = "MANUAL_PRESENT"
    /\ \E k \in 1..Len(inflight) : inflight[k].studentId = s /\ inflight[k].isManual

\* the step is handleAttendanceChange for student s
StatusSetFor(s) ==
    /\ Len(inflight') = Len(inflight) + 1
    /\ inflight'[Len(inflight')].studentId = s
    /\ studentAttendances'[s] = inflight'[Len(inflight')].status

\* C26: the status the user set for a student stays in the map until the
\* user sets another status for that student or the modal closes, whatever
\* responses and re-fetches arrive in between.  (Stated for a choice whose
\* own call is still unanswered, where the state shows that the user made it.)
C26_LocalStatusPersists ==
    [][\A s \in Students :
          ManualChoiceShown(s) =>
             \/ studentAttendances'[s] = studentAttendances[s]
             \/ StatusSetFor(s)
             \/ ~isOpen']_vars

----------------------------------------------------------------------------
(* Claims about re-opening the attendance modal (SpecReopen) *)

\* the map the server's data gives: the records, whatever the order of arrival
ServerMap == [s \in Students |-> srvAtt[s]]

\* no status was set in this opening: the mutation observer, created when
\* the modal mounts, has seen no mutate()
NothingMarkedYet == markAttendanceMutation = "idle"

\* C12: with the server's data unchanged, in every opening of the modal,
\* once both reads are available and before a status is set, the map is the
\* same function of the server's data: it depends neither on which opening
\* it is, nor on the order the reads arrived in, nor on statuses set in an
\* earlier opening whose calls did not reach the server.
C12_IdempotentReopen ==
    (isOpen /\ enrollmentsData.loaded /\ attendancesData.loaded /\ NothingMarkedYet)
       => studentAttendances = ServerMap

\* a second opening: a call of the earlier opening, for a status the server
\* does not have, is still unanswered, both reads are in the cache and the
\* map is the reconciled one
C12_Witness ==
    /\ isOpen /\ NothingMarkedYet
    /\ enrollmentsData.loaded /\ attendancesData.loaded
    /\ inflight # <<>>
    /\ inflight[1].status # srvAtt[inflight[1].studentId]
    /\ studentAttendances = ServerMap

----------------------------------------------------------------------------
(* Claims about the two schedule editors (SpecSchedule) *)

\* the time slots of the editor of the mounted page
EditorSlots ==
    IF page = "batch-creation" THEN formValues.schedule.timeSlots
    ELSE editFormData.schedule.timeSlots

\* the step keeps the number of slots and every slot but slot i
OnlySlot(i) ==
    /\ Len(EditorSlots') = Len(EditorSlots)
    /\ \A j \in 1..Len(EditorSlots) : j # i => EditorSlots'[j] = EditorSlots[j]

\* a step that edits a time field of slot i: the value typed in is the one
\* the field holds afterwards, and the other time field keeps its value
TimeEdit(i) ==
    /\ OnlySlot(i)
    /\ \/ /\ EditorSlots'[i].endTime = EditorSlots[i].endTime
          /\ EditorSlots'[i].startTime \in TimeInputs
          /\ IF page = "batch-creation"
             THEN TimeChange(i, "startTime", EditorSlots'[i].startTime)
             ELSE EditTimeChange(i, "startTime", EditorSlots'[i].startTime)
       \/ /\ EditorSlots'[i].startTime = EditorSlots[i].startTime
          /\ EditorSlots'[i].endTime \in TimeInputs
          /\ IF page = "batch-creation"
             THEN TimeChange(i, "endTime", EditorSlots'[i].endTime)
             ELSE EditTimeChange(i, "endTime", EditorSlots'[i].endTime)

\* hour and minute of an 'HH:MM' string, read off its digits
HourOf(time) == 10 * DigitValue(time[1]) + DigitValue(time[2])

MinuteOf(time) == 10 * DigitValue(time[4]) + DigitValue(time[5])

MinutesOfDay(time) == HourOf(time) * 60 + MinuteOf(time)

BothSet(slot) == slot.startTime # <<>> /\ slot.endTime # <<>>

EndsAfterStart(slot) == MinutesOfDay(slot.endTime) > MinutesOfDay(slot.startTime)

\* the duration of slot i after the step (-1 when the slot is gone)
DurationAfter(i) ==
    IF i \in 1..Len(EditorSlots') THEN EditorSlots'[i].durationMinutes ELSE -1

\* C3: when a time field of a slot is edited, in either editor, so that both
\* times are set and the end is after the start, the slot's duration becomes
\* (endHour*60+endMinute) - (startHour*60+startMinute); 09:00 to 11:30 is 150.
\* (Per slot: its times are not both set with the end after the start, or its
\* duration is that difference, or the step is no edit of its times.)
C3_DurationDerivation ==
    [][/\ \A i \in 1..Len(EditorSlots') :
             \/ ~(BothSet(EditorSlots'[i]) /\ EndsAfterStart(EditorSlots'[i]))
             \/ EditorSlots'[i].durationMinutes =
                   MinutesOfDay(EditorSlots'[i].endTime)
                      - MinutesOfDay(EditorSlots'[i].startTime)
             \/ ~TimeEdit(i)
       /\ calculateDuration(T0900, T1130) = 150
       /\ editCalculateDuration(T0900, T1130) = 150]_vars

\* a slot of the creation form runs from 09:00 to 11:30 and lasts 150 minutes
C3_Witness ==
    /\ page = "batch-creation"
    /\ \E i \in 1..Len(EditorSlots) :
          EditorSlots[i] = [startTime |-> T0900, endTime |-> T1130,
                            durationMinutes |-> 150]

\* C4: when a time field is edited so that both times are set and the end is
\* not after the start, the slot's duration becomes 0 (14:00 to 13:00 gives
\* 0), and no step of the creation form leaves a slot with a negative duration.
C4_NonPositiveSpanIsZero ==
    [][/\ \A i \in 1..Len(EditorSlots') :
             \/ ~(BothSet(EditorSlots'[i]) /\ ~EndsAfterStart(EditorSlots'[i]))
             \/ EditorSlots'[i].durationMinutes = 0
             \/ ~TimeEdit(i)
       /\ calculateDuration(T1400, T1300) = 0
       /\ editCalculateDuration(T1400, T1300) = 0
       /\ \A i \in 1..Len(formValues'.schedule.timeSlots) :
             formValues'.schedule.timeSlots[i].durationMinutes >= 0]_vars

\* a slot of the creation form ends before it starts and lasts 0 minutes,
\* next to a slot with a computed duration
C4_Witness ==
    /\ page = "batch-creation"
    /\ \E i, j \in 1..Len(EditorSlots) :
          /\ EditorSlots[i] = [startTime |-> T1130, endTime |-> T0900,
                               durationMinutes |-> 0]
          /\ EditorSlots[j].durationMinutes > 0

\* the duration the times of a slot give
DerivedDuration(slot) ==
    IF ~BothSet(slot) THEN 0
    ELSE IF EndsAfterStart(slot)
         THEN MinutesOfDay(slot.endTime) - MinutesOfDay(slot.startTime)
         ELSE 0

\* a step that types v into the duration field of slot i
DurationEdit(i, v) ==
    /\ OnlySlot(i)
    /\ IF page = "batch-creation" THEN DurationChange(i, v) ELSE EditDurationChange(i, v)

\* a step that removes slot j
SlotRemoval(j) ==
    /\ Len(EditorSlots') = Len(EditorSlots) - 1
    /\ IF page = "batch-creation" THEN RemoveSlot(j) ELSE EditRemoveSlot(j)

\* the edit modal stays open across the step
SameForm == page = "batch-creation" \/ (isEditModalOpen /\ isEditModalOpen')

\* slot i is where it was, with the duration it had
KeptInPlace(i) ==
    /\ Len(EditorSlots') >= Len(EditorSlots)
    /\ EditorSlots'[i].durationMinutes = EditorSlots[i].durationMinutes

\* a slot is removed: slot i itself, or another one, and then slot i has
\* the duration it had at the index it moves to
RemovedOrMoved(i) ==
    \E j \in 1..Len(EditorSlots) :
        /\ SlotRemoval(j)
        /\ \/ j = i
           \/ j < i /\ EditorSlots'[i - 1].durationMinutes = EditorSlots[i].durationMinutes
           \/ j > i /\ EditorSlots'[i].durationMinutes = EditorSlots[i].durationMinutes

\* C5: a duration typed in (v >= 0) is the slot's duration; it stays through
\* every step that does not edit a time of that slot (edits of other slots,
\* day toggles, slots added, other slots removed); and an edit of a time of
\* a slot whose times are both set replaces it by the duration the new times
\* give.  (Per slot and step: the duration is kept, in place or at the index
\* a removal moves the slot to, unless the step edits a time or the duration
\* of that very slot or removes it.)
C5_ManualOverridePersists ==
    [][/\ \A i \in 1..Len(EditorSlots), v \in DurationInputs :
             v >= 0 => (DurationAfter(i) = v \/ ~DurationEdit(i, v))
       /\ \A i \in 1..Len(EditorSlots) :
             SameForm =>
                \/ KeptInPlace(i)
                \/ TimeEdit(i)
                \/ \E v \in DurationInputs : DurationEdit(i, v)
                \/ RemovedOrMoved(i)
       /\ \A i \in 1..Len(EditorSlots) :
             BothSet(EditorSlots[i]) =>
                \/ /\ i \in 1..Len(EditorSlots')
                   /\ EditorSlots'[i].durationMinutes = DerivedDuration(EditorSlots'[i])
                \/ ~TimeEdit(i)]_vars

\* the first slot runs from 09:00 to 11:30 and keeps the 45 minutes typed in
\* while a second slot has its times set and a day is checked
C5_Witness ==
    /\ Len(EditorSlots) = 2
    /\ EditorSlots[1] = [startTime |-> T0900, endTime |-> T1130, durationMinutes |-> 45]
    /\ BothSet(EditorSlots[2])
    /\ EditorSlots[2].durationMinutes = DerivedDuration(EditorSlots[2])
    /\ (IF page = "batch-creation" THEN formValues.schedule.days
        ELSE editFormData.schedule.days) # <<>>

\* `slots` without its slot j, the others in their order
WithoutSlot(slots, j) ==
    [k \in 1..(Len(slots) - 1) |-> IF k < j THEN slots[k] ELSE slots[k + 1]]

\* C22: Remove is offered only while a form has more than one slot: once
\* the slot list of a form is non-empty no add, update or remove of the
\* editors makes it empty again, and a remove deletes exactly the slot at
\* its index and keeps the other slots and their order.
C22_SlotListStaysNonEmpty ==
    [][/\ (SameForm /\ Len(EditorSlots) > 0) => Len(EditorSlots') > 0
       /\ \A j \in 1..Len(EditorSlots) :
             \/ EditorSlots' = WithoutSlot(EditorSlots, j)
             \/ ~SlotRemoval(j)]_vars

\* the creation form holds one slot, with times: Remove is not on offer
C22_Witness ==
    /\ page = "batch-creation"
    /\ Len(EditorSlots) = 1
    /\ EditorSlots[1].startTime = T1130
    /\ EditorSlots[1].endTime = T0900

\* the checked days of the editor of the mounted page
EditorDays ==
    IF page = "batch-creation" THEN formValues.schedule.days
    ELSE ScheduleOf(editFormData).days

OtherTime(field) == IF field = "startTime" THEN "endTime" ELSE "startTime"

\* the slot list handleTimeChange(field, value) of slot i of the mounted
\* editor hands to the form
TimeChanged(i, field, value) ==
    IF page = "batch-creation" THEN handleTimeChange(EditorSlots, i, field, value)
    ELSE editHandleTimeChange(EditorSlots, i, field, value)

\* the slot list handleDurationChange(value) of slot i hands to the form
DurationChanged(i, value) ==
    IF page = "batch-creation" THEN handleDurationChange(EditorSlots, i, value)
    ELSE editHandleDurationChange(EditorSlots, i, value)

\* `after` has the slots of the editor, slot i excepted
OnlySlotDiffers(after, i) ==
    /\ Len(after) = Len(EditorSlots)
    /\ \A j \in 1..Len(EditorSlots) : j # i => after[j] = EditorSlots[j]

\* what a time change of slot i is to give: the field holds the value, the
\* other time field is kept, the duration is recomputed from the two times
\* when the other one was non-empty and kept otherwise, and the other
\* slots are as they were
TimeEffect(i, field, value) ==
    LET after == TimeChanged(i, field, value)
    IN  /\ OnlySlotDiffers(after, i)
        /\ after[i][field] = value
        /\ after[i][OtherTime(field)] = EditorSlots[i][OtherTime(field)]
        /\ after[i].durationMinutes =
              IF EditorSlots[i][OtherTime(field)] = <<>>
              THEN EditorSlots[i].durationMinutes
              ELSE DerivedDuration(after[i])

\* what a duration change of slot i is to give
DurationEffect(i, value) ==
    LET after == DurationChanged(i, value)
    IN  /\ OnlySlotDiffers(after, i)
        /\ after[i].durationMinutes = Max(0, value)
        /\ after[i].startTime = EditorSlots[i].startTime
        /\ after[i].endTime = EditorSlots[i].endTime

\* every update the editor offers in this state has its effect
SlotUpdatesAreLocal ==
    \A i \in 1..Len(EditorSlots) :
        /\ \A field \in {"startTime", "endTime"}, value \in TimeInputs :
              TimeEffect(i, field, value)
        /\ \A value \in DurationInputs : DurationEffect(i, value)

\* the step is an update of a time or of the duration of some slot
SlotUpdate ==
    \E i \in 1..Len(EditorSlots) :
        \/ \E field \in {"startTime", "endTime"}, value \in TimeInputs :
              IF page = "batch-creation" THEN TimeChange(i, field, value)
              ELSE EditTimeChange(i, field, value)
        \/ \E value \in DurationInputs :
              IF page = "batch-creation" THEN DurationChange(i, value)
              ELSE EditDurationChange(i, value)

\* a step that changes the days or more than one slot is no slot update
DaysAndOtherSlotsKept ==
    \/ /\ EditorDays' = EditorDays
       /\ \E i \in 1..Len(EditorSlots) : OnlySlot(i)
    \/ ~SlotUpdate

\* C25: a change of startTime or endTime of a slot recomputes the slot's
\* duration only if its other time field is non-empty and keeps the duration
\* otherwise; a change of the duration sets max(0, value) and keeps both
\* times; either change leaves the other slots and the days as they were.
C25_UpdateTimeSlotFrame ==
    /\ []SlotUpdatesAreLocal
    /\ [][DaysAndOtherSlotsKept]_vars

\* the first slot has a start and no end and keeps the 45 minutes typed in,
\* next to a slot of 150 minutes and a checked day
C25_Witness ==
    /\ Len(EditorSlots) = 2
    /\ EditorSlots[1] = [startTime |-> T1130, endTime |-> <<>>, durationMinutes |-> 45]
    /\ EditorSlots[2] = [startTime |-> T0900, endTime |-> T1130, durationMinutes |-> 150]
    /\ EditorDays = <<"Monday">>

----------------------------------------------------------------------------
(* Claims about the wizard (SpecWizard) *)

ScheduleIncomplete ==
    formValues.schedule.days = <<>> \/ formValues.schedule.timeSlots = <<>>

\* title, software, mode, both dates and the capacity pass their rules
OtherFieldsValid ==
    /\ formValues.title # "" /\ formValues.software # "" /\ formValues.mode # ""
    /\ formValues.startDate # "" /\ formValues.endDate # ""
    /\ formValues.maxCapacity >= 1

\* on the schedule step with no day or no slot, Next is disabled and
\* handleNext would return at once
GateHolds ==
    (active = 1 /\ ScheduleIncomplete)
       => /\ NextDisabled
          /\ handleNextOutcome(active, formValues, suggestedBatchId) = "return"

\* C6 as stated: Next on the schedule step does nothing while days or
\* timeSlots is empty, and with both non-empty and the other fields valid it
\* issues createBatch.
C6_ScheduleGatingAsStated ==
    /\ []GateHolds
    /\ [][(NextButton /\ active = 1 /\ ~ScheduleIncomplete /\ OtherFieldsValid)
             => handleNextPc' = "creating"]_vars

\* C6, amended: Next on the schedule step does nothing while days or
\* timeSlots is empty or another field is invalid; with both non-empty and
\* the other fields valid it issues createBatch if this run of the wizard has
\* not created a batch yet, and otherwise advances to the next step without
\* a createBatch.
C6_ScheduleGating ==
    /\ []GateHolds
    /\ [][(NextButton /\ active = 1)
             => IF ScheduleIncomplete \/ ~OtherFieldsValid
                THEN handleNextPc' = handleNextPc /\ active' = active
                ELSE IF suggestedBatchId = 0
                     THEN handleNextPc' = "creating" /\ active' = active
                     ELSE handleNextPc' = handleNextPc /\ active' = 2]_vars

\* createBatch has been issued from the schedule step with a day and a slot
C6_Witness ==
    /\ handleNextPc = "creating"
    /\ active = 1
    /\ ~ScheduleIncomplete
    /\ OtherFieldsValid

\* createBatch is issued by this step
CreateIssued == handleNextPc # "creating" /\ handleNextPc' = "creating"

\* the createBatch call in flight is rejected by this step
CreateRejected == handleNextPc = "creating" /\ handleNextPc' = "idle"

\* the schedule step with a form that passes every rule of handleNext
ReadyToCreate ==
    /\ active = 1 /\ handleNextPc = "idle"
    /\ ~ScheduleIncomplete /\ OtherFieldsValid

OneBatchPerRun ==
    /\ CreateIssued => suggestedBatchId = 0
    /\ suggestedBatchId # 0 => (suggestedBatchId' = suggestedBatchId /\ ~CreateIssued)
    /\ CreateRejected => (active' = active /\ suggestedBatchId' = 0)
    /\ (NextButton /\ ReadyToCreate) =>
          IF suggestedBatchId = 0 THEN CreateIssued /\ active' = active
          ELSE ~CreateIssued /\ active' = 2

\* C28: one run of the wizard creates at most one batch: createBatch is
\* issued only while no createBatch of this run has succeeded, also after a
\* failed suggest-candidates call and after Back; a failed createBatch
\* leaves the step where it is and the next Next on the valid schedule step
\* issues createBatch again.
C28_AtMostOneBatch ==
    /\ []((ReadyToCreate /\ suggestedBatchId = 0) => ~NextDisabled)
    /\ [][OneBatchPerRun]_vars

\* the batch is created, the suggest-candidates call failed or the user
\* came back, and the schedule step is ready for Next again
C28_Witness ==
    /\ ReadyToCreate
    /\ suggestedBatchId # 0

\* C29: the candidate-suggestion step (index 2) and the completed step
\* (index 3) are shown only after a createBatch call of this run has
\* succeeded, and the step index stays within 0..3.
C29_LateStepsNeedBatch ==
    /\ active \in 0..3
    /\ active >= 2 => suggestedBatchId # 0

----------------------------------------------------------------------------
(* Claims about the edit modal (SpecEdit) *)

\* C7: no updateBatch request carries a schedule with an empty days list or
\* an empty timeSlots list.
C7_UpdateNeedsDayAndSlot ==
    updateBatchMutation.status = "pending"
       => updateBatchMutation.nDays > 0 /\ updateBatchMutation.nSlots > 0

----------------------------------------------------------------------------
(* Claims about the reports page (SpecReports) *)

\* the message fetchReport is to fail with for these arguments, "" for none
ValidationMessage(reportType, params) ==
    IF reportType \notin ReportTypes THEN "Invalid report type"
    ELSE IF reportType \in {"student-attendance", "student-current-batch"}
            /\ params.studentId = ""
         THEN "Student ID is required"
    ELSE IF reportType = "batch-attendance" /\ params.batchId = ""
         THEN "Batch ID is required"
    ELSE ""

\* with the filters as typed, fetchReport of each of the nine report types
\* and of two names outside them fails with exactly the message of the rule,
\* and requests otherwise
DispatchValidates ==
    \A reportType \in ReportTypes \cup {"", "attendance"} :
       LET call == fetchReport(reportType, filters)
           message == ValidationMessage(reportType, filters)
       IN  IF message = ""
           THEN call.kind = "http"
           ELSE call = Rejected(message)

\* a generate action whose request fails validation awaits a rejected promise
\* and no HTTP request, and the catch displays its message
RejectedWithoutRequest ==
    /\ (~isLoading /\ isLoading' /\ ValidationMessage(selectedReport, filters) # "")
          => /\ reportRequest'.call.kind = "rejected"
             /\ reportRequest'.call.message = ValidationMessage(selectedReport, filters)
    /\ reportRequest.call.kind = "rejected"
          => /\ error' = reportRequest.call.message
             /\ reportRequest' = NoRequest
             /\ ~isLoading'
             /\ reportData' = NoReport

\* C13: building the request of 'student-attendance' or 'student-current-batch'
\* without a studentId fails with "Student ID is required", of
\* 'batch-attendance' without a batchId with "Batch ID is required", of a
\* report type outside the nine with "Invalid report type"; a generate action
\* that fails so issues no HTTP request and its message becomes the displayed
\* error; 'pending-payments' with no filters requests.
C13_DispatchValidation ==
    /\ []DispatchValidates
    /\ [](fetchReport("pending-payments", NoFilters).kind = "http")
    /\ [][RejectedWithoutRequest]_vars

\* the batch-attendance report was generated without a batch id and its
\* message is displayed
C13_Witness ==
    /\ selectedReport = "batch-attendance"
    /\ filters.batchId = ""
    /\ error = "Batch ID is required"
    /\ ~isLoading
    /\ reportRequest = NoRequest

\* the templates in the order of the claim
TemplateOrder ==
    <<"pending-payments", "all-analysis", "students-without-batch",
      "portfolio-status", "student-current-batch", "student-attendance",
      "batch-attendance", "batches-by-faculty", "monthwise-payments">>

\* the characteristic field combination of a template holds on a payload
FieldPredicate(template, data) ==
    CASE template = "pending-payments" ->
            data.payments # "undefined" /\ data.summary \in {"object", "analysis"}
      [] template = "all-analysis" -> data.summary = "analysis"
      [] template = "students-without-batch" -> data.students = "array"
      [] template = "portfolio-status" -> data.portfolios = "array"
      [] template = "student-current-batch" ->
            data.student = "object" /\ data.currentBatch = "object"
      [] template = "student-attendance" ->
            data.student = "object" /\ data.attendances \in {"array", "object"}
      [] template = "batch-attendance" ->
            data.batch = "object" /\ data.statistics = "object"
      [] template = "batches-by-faculty" -> data.facultyStatistics = "array"
      [] template = "monthwise-payments" -> data.monthlyStatistics = "array"

\* the positions of the templates whose predicate holds
Matching(data) ==
    {i \in 1..Len(TemplateOrder) : FieldPredicate(TemplateOrder[i], data)}

\* the first template of the order whose predicate holds, "raw-json" for none
FirstMatch(data) ==
    IF Matching(data) = {} THEN "raw-json"
    ELSE TemplateOrder[CHOOSE i \in Matching(data) : \A j \in Matching(data) : i <= j]

\* a response with a payload is on display
PayloadShown == ~reportData.isNull /\ reportData.hasData

\* C14: the template rendered for a payload is the first, in the order
\* pending-payments, all-analysis, students-without-batch, portfolio-status,
\* student-current-batch, student-attendance, batch-attendance,
\* batches-by-faculty, monthwise-payments, whose field predicate holds on
\* it, whatever report type is selected; payments next to a summary with
\* students and batches is rendered as pending payments.
C14_TemplatePrecedence ==
    /\ PayloadShown => renderReportData(reportData) = FirstMatch(reportData.data)
    /\ renderReportData(Response(PaymentsAndAnalysisPayload)) = "pending-payments"

\* the all-analysis report is selected and answered with a payload that has
\* payments and an analysis summary
C14_Witness ==
    /\ selectedReport = "all-analysis"
    /\ reportData = Response(PaymentsAndAnalysisPayload)
    /\ Cardinality(Matching(reportData.data)) = 2
    /\ renderReportData(reportData) = "pending-payments"

\* C15: for every successfully fetched report response some template is
\* rendered, and when none of the nine field combinations matches the
\* response it is the raw-JSON fallback.
C15_TemplateFallback ==
    ~reportData.isNull
       => /\ renderReportData(reportData) # "nothing"
          /\ (~reportData.hasData \/ Matching(reportData.data) = {})
                => renderReportData(reportData) = "raw-json"

\* reportData, error: which of the two is set
ReportSet == ~reportData.isNull

ErrorSet == error # ""

\* a generate action starts: everything is cleared and a promise is awaited
StartsLoading ==
    (~isLoading /\ isLoading')
       => /\ ~ReportSet' /\ ~ErrorSet'
          /\ reportRequest = NoRequest /\ reportRequest' # NoRequest

\* a generate action ends: with the report or with the error, never both or
\* neither
EndsLoading ==
    (isLoading /\ ~isLoading')
       => /\ ReportSet' # ErrorSet'
          /\ reportRequest # NoRequest /\ reportRequest' = NoRequest

\* a generate action with nothing selected: the error and nothing else
NothingSelected ==
    (selectedReport = "" /\ selectedReport' = "")
       => /\ error' = "Please select a report type"
          /\ ~isLoading /\ ~isLoading'
          /\ reportRequest' = NoRequest /\ reportRequest = NoRequest
          /\ reportData' = reportData

\* C16: a generate action goes idle -> loading -> success|error: its start
\* clears reportData and error and sets isLoading; at its end isLoading is
\* false and exactly one of reportData and error is set; with no report type
\* selected it sets the error 'Please select a report type' without loading
\* and without a request; and once the request settles every started
\* generate action leaves the loading state.
C16_GenerateLifecycle ==
    /\ [][StartsLoading /\ EndsLoading /\ NothingSelected]_vars
    /\ [](isLoading <=> reportRequest # NoRequest)
    /\ (isLoading ~> ~isLoading)

\* a generate action of a selected report ended in the error of its request
C16_Witness ==
    /\ selectedReport # ""
    /\ ~isLoading
    /\ error = "Network Error"
    /\ ~ReportSet

\* the optional filters the endpoint of a report type takes
OptionalFilters(reportType) ==
    CASE reportType \in {"batch-attendance", "student-attendance"} -> {"from", "to"}
      [] reportType = "batches-by-faculty" -> {"facultyId", "from", "to"}
      [] reportType = "monthwise-payments" -> {"month", "year"}
      [] OTHER -> {}

\* the name of a query parameter as it stands in the endpoint
ParamName(key) ==
    CASE key = "batchId" -> "batchId="
      [] key = "from" -> "from="
      [] key = "to" -> "to="
      [] key = "facultyId" -> "facultyId="
      [] key = "month" -> "month="
      [] key = "year" -> "year="
      [] OTHER -> "studentId="

\* where the parameter of `key` stands in the endpoint
PositionsOf(endpoint, key) == {i \in 1..Len(endpoint) : endpoint[i] = ParamName(key)}

\* where any parameter stands
ParamPositions(endpoint) ==
    UNION {PositionsOf(endpoint, key) : key \in FilterKeys \ {"studentId"}}

\* the first parameter follows the only '?', each further one an '&', and
\* there is no other '?' or '&'
WellFormedQuery(endpoint) ==
    /\ \A i \in ParamPositions(endpoint) :
          /\ i > 1
          /\ endpoint[i - 1] =
                IF \A j \in ParamPositions(endpoint) : i <= j THEN "?" ELSE "&"
    /\ \A i \in 1..Len(endpoint) :
          endpoint[i] \in {"?", "&"} => (i + 1) \in ParamPositions(endpoint)

\* the endpoint built from `params` carries each optional filter of the
\* report type, once and with its value, exactly when it is non-empty
CarriesFilters(reportType, params, endpoint) ==
    \A key \in FilterKeys \ {"studentId", "batchId"} :
       IF key \in OptionalFilters(reportType) /\ params[key] # ""
       THEN /\ Cardinality(PositionsOf(endpoint, key)) = 1
            /\ \A i \in PositionsOf(endpoint, key) :
                  i < Len(endpoint) /\ endpoint[i + 1] = params[key]
       ELSE PositionsOf(endpoint, key) = {}

\* a generate action that sends a request
RequestSent == ~isLoading /\ isLoading' /\ reportRequest'.call.kind = "http"

\* C23: the request of a report carries an optional filter (from, to,
\* facultyId, month, year) in its query string exactly when the filter is
\* present and non-empty, and the query string is well formed for every
\* combination: the first parameter after '?', each further one after '&'.
C23_QueryString ==
    [][RequestSent
         => /\ CarriesFilters(selectedReport, filters, reportRequest'.call.endpoint)
            /\ WellFormedQuery(reportRequest'.call.endpoint)]_vars

\* batches by faculty requested with a date range and no faculty: the
\* first parameter is from
C23_Witness ==
    /\ isLoading
    /\ reportRequest.type = "batches-by-faculty"
    /\ reportRequest.call.endpoint =
          <<"/reports/batches-by-faculty", "?", "from=", "2024-01-01",
            "&", "to=", "2024-01-31">>

\* the step settles the request of a generate action: its response is put
\* on display as reportData, or its failure as error
RequestSettled ==
    /\ reportRequest.call.kind = "http"
    /\ reportRequest' = NoRequest
    /\ reportData' # NoReport \/ error' # ""

\* C27: the report on display belongs to the selected report type: a
\* response (or failure) of a generate action started under another report
\* type is not put on display after the selection has changed.
C27_DisplayedReportIsSelected ==
    [][RequestSettled => reportRequest.type = selectedReport']_vars

----------------------------------------------------------------------------
(* Claims about mutations and the query cache (SpecMutations) *)

\* the success of each mutation calls invalidateQueries with the key of the
\* list it changes
SuccessInvalidates ==
    /\ (\E i \in 1..MaxInflight + 1 : MarkSucceeds(i))
          => "session-attendances" \in invalidated'
    /\ UpdateBatchSucceeds => "batches" \in invalidated'
    /\ DeleteBatchSucceeds => "batches" \in invalidated'
    /\ AssignFacultySucceeds => "batch-progress" \in invalidated'
    /\ CheckinSucceeds => "faculty-sessions" \in invalidated'
    /\ CheckoutSucceeds => "faculty-sessions" \in invalidated'
    /\ CreateBatchSucceeds => "batches" \in invalidated'

\* C17: any successful mutation invalidates the cache key of the lists it
\* changes: mark attendance the session's attendances, update and delete
\* batch 'batches', assign faculty 'batch-progress', check-in and check-out
\* the faculty's sessions, and createBatch of the wizard 'batches'.
C17_SuccessInvalidates == [][SuccessInvalidates]_vars

----------------------------------------------------------------------------
(* Claims about roles (SpecRoles) *)

\* no updateBatch, deleteBatch or assignFaculty request has been issued
NoAdminRequest ==
    /\ updateBatchMutation.status = "idle"
    /\ deleteBatchMutation = "idle"
    /\ assignFacultyMutation = "idle"

\* C18: for a user whose role is neither admin nor superadmin no sequence of
\* UI actions on the batches list or the batch-progress list issues an
\* updateBatch, deleteBatch or assignFaculty request: the controls that lead
\* to them are not there.
C18_NonAdminIssuesNothing ==
    (userRole \notin {"admin", "superadmin"})
       => /\ NoAdminRequest
          /\ ~isEditModalOpen /\ ~isDeleteModalOpen /\ ~isAllocateModalOpen

\* a faculty user has opened the details of the batch
C18_Witness ==
    /\ userRole = "faculty"
    /\ OnBatchesList /\ isViewModalOpen /\ selectedBatch
    /\ NoAdminRequest

\* the steps that issue and settle deleteBatch and updateBatch
DeleteIssued == deleteBatchMutation # "pending" /\ deleteBatchMutation' = "pending"

DeleteFailed == deleteBatchMutation = "pending" /\ deleteBatchMutation' = "error"

DeleteSucceeded == deleteBatchMutation = "pending" /\ deleteBatchMutation' = "success"

UpdateFailed ==
    updateBatchMutation.status = "pending" /\ updateBatchMutation'.status = "error"

UpdateSucceeded ==
    updateBatchMutation.status = "pending" /\ updateBatchMutation'.status = "success"

ModalOutcomes ==
    /\ DeleteIssued => currentEnrollment = 0
    /\ DeleteFailed => UNCHANGED <<isDeleteModalOpen, selectedBatch, editFormData>>
    /\ UpdateFailed => UNCHANGED <<isEditModalOpen, selectedBatch, editFormData>>
    /\ DeleteSucceeded => (~isDeleteModalOpen' /\ ~selectedBatch')
    /\ UpdateSucceeded =>
          (~isEditModalOpen' /\ ~selectedBatch' /\ editFormData' = EmptyFormData)

\* C30: no deleteBatch request is issued for a batch with enrollments; a
\* failed deleteBatch or updateBatch leaves its modal, the selected batch
\* and the edit form data as they are; a successful one closes its modal and
\* clears the selection.
C30_DeleteAndUpdateOutcomes ==
    /\ [](currentEnrollment > 0 => deleteBatchMutation = "idle")
    /\ [][ModalOutcomes]_vars

\* a deleteBatch for a batch without enrollments has failed and the delete
\* modal is still open on that batch
C30_Witness ==
    /\ DeleteModalShown
    /\ deleteBatchMutation = "error"
    /\ currentEnrollment = 0

----------------------------------------------------------------------------
(* Claims about reading a schedule (SpecDisplay) *)

\* the edit form opens
EditOpens == ~isEditModalOpen /\ isEditModalOpen'

\* the listed batch's schedule is `schedule` as a string: it is displayed
\* as the object is
DisplayedAs(schedule) ==
    /\ formatDays(batchSchedule) = formatDays(schedule)
    /\ formatTimeSlots(batchSchedule) = formatTimeSlots(schedule)

\* the form that opens holds the days and time slots of `schedule`
LoadsAs(schedule) ==
    /\ editFormData'.hasSchedule
    /\ editFormData'.schedule = [days |-> schedule.days, timeSlots |-> schedule.timeSlots]

\* C19: a schedule that arrives as a JSON string is read like the same
\* schedule arriving as an object: the displayed days, the displayed time
\* slots and the schedule loaded into the edit form are the same; a string
\* that cannot be parsed is no schedule ('Not specified', an empty schedule
\* in the form), without an error.
C19_StringReadAsObject ==
    /\ [](\A o \in StructuredSchedules :
             batchSchedule = Serialized(o) => DisplayedAs(o))
    /\ [](batchSchedule \in UnparsableSchedules => DisplayedAs(NoSchedule))
    /\ [][EditOpens
             => /\ \A o \in StructuredSchedules :
                      batchSchedule \in {o, Serialized(o)} => LoadsAs(o)
                /\ batchSchedule \in UnparsableSchedules => LoadsAs(NoSchedule)]_vars

\* a schedule that arrived as a string is displayed and loaded into the form
C19_Witness ==
    /\ batchSchedule = JsonSchedule(<<"Monday", "Wednesday">>, <<MorningSlot, AfternoonSlot>>)
    /\ EditModalShown
    /\ editFormData.schedule =
          [days |-> <<"Monday", "Wednesday">>, timeSlots |-> <<MorningSlot, AfternoonSlot>>]
    /\ formatDays(batchSchedule) = Shown(<<"Monday", ", ", "Wednesday">>)
    /\ Len(formatTimeSlots(batchSchedule).parts) = 2

\* the days of `days` in the order of the week
InWeekOrder(days) == SelectSeq(weekDays, LAMBDA d : d \in SeqToSet(days))

\* C20: the days of a schedule are displayed in the order Monday..Sunday,
\* so that schedules holding the same days in different insertion order are
\* displayed identically.
C20_DaysInWeekOrder ==
    \A o \in StructuredSchedules :
       batchSchedule \in {o, Serialized(o)}
          => formatDays(batchSchedule) = Shown(Join(InWeekOrder(o.days)))

----------------------------------------------------------------------------
(* Claims about the day checkboxes (SpecDays) *)

\* no day is twice in the list
NoDuplicates(days) ==
    \A i, j \in 1..Len(days) : days[i] = days[j] => i = j

\* `day` went in if it was out and out if it was in, and no other day moved
DayFlipped(day, before, after) ==
    /\ (day \in SeqToSet(after)) <=> (day \notin SeqToSet(before))
    /\ \A other \in SeqToSet(weekDays) \ {day} :
          (other \in SeqToSet(after)) <=> (other \in SeqToSet(before))
    /\ day \in SeqToSet(after) => after = Append(before, day)

\* every tick of a day checkbox of either editor flips that day and leaves
\* the time slots alone
TogglesFlip ==
    \A d \in ToggleInputs :
       /\ ToggleDay(d)
             => /\ DayFlipped(d, formValues.schedule.days, formValues'.schedule.days)
                /\ formValues'.schedule.timeSlots = formValues.schedule.timeSlots
       /\ EditToggleDay(d)
             => /\ DayFlipped(d, ScheduleOf(editFormData).days,
                               ScheduleOf(editFormData').days)
                /\ ScheduleOf(editFormData').timeSlots
                      = ScheduleOf(editFormData).timeSlots

\* C21: toggleDay removes the day when it is present and appends it when it
\* is absent: starting from the empty schedule days never holds a weekday
\* twice, each toggle flips the presence of its day only (so a day is
\* present exactly when toggled an odd number of times), and the time slots
\* are unchanged by it.
C21_ToggleDay ==
    /\ [](NoDuplicates(formValues.schedule.days)
           /\ NoDuplicates(ScheduleOf(editFormData).days))
    /\ [][TogglesFlip]_vars

\* in the wizard Sunday and then Monday are ticked, next to a time slot
C21_Witness ==
    /\ OnWizard
    /\ formValues.schedule.days = <<"Sunday", "Monday">>
    /\ Len(formValues.schedule.timeSlots) = 1

----------------------------------------------------------------------------
(* Claims about the stored session (SpecStorage) *)

LoggedOut(storage) == \A k \in SessionKeys : storage[k] = ""

\* C24: after logout none of token, user, originalUser and originalSession is
\* stored, whatever was stored before, and a second logout changes nothing
C24_LogoutClears ==
    /\ [](/\ LoggedOut(logout(localStorage))
          /\ logout(logout(localStorage)) = logout(localStorage))
    /\ [][Logout => /\ LoggedOut(localStorage')
                    /\ localStorage'["other"] = localStorage["other"]
                    /\ (LoggedOut(localStorage) => localStorage' = localStorage)]_vars

\* the storage after a logout, the foreign entry still there
C24_Witness ==
    /\ page = "login"
    /\ LoggedOut(localStorage)
    /\ localStorage["other"] = "s2"

====
